---- MODULE Spec2Model ----
(***************************************************************************)
(* State-machine model of the DataHaven demo dapp orchestration code:      *)
(* the ledger-write operations (createBucket, deleteBucket, uploadFile,    *)
(* requestDeleteFile), the bounded polls (waitForMSPConfirmOnChain,        *)
(* waitForBackendBucketReady, waitForBackendFileReady), the page handlers  *)
(* that compose them (handleUpload, handleCreateBucket, handleDeleteBucket,*)
(* handleDelete, handleDownload), the bucket selector and the pending-     *)
(* deletion poll effect of the Files page, and the session of AppContext.  *)
(* Every await of the source is a step; the answer of the collaborator     *)
(* awaited (ledger, index, storage provider, wallet) is chosen with \E.    *)
(***************************************************************************)
EXTENDS Integers, Sequences, FiniteSets, TLC

\* ---------------------------------------------------------------- bounds
\* Number of delayed "reset progress to idle" timers tracked per form.
MaxPendingResets == 1
\* Number of handler calls the user starts in one run.
MaxCalls == 2
\* Number of rounds of the pending-deletion poll that can be in flight at
\* once (the interval fires a round without waiting for the one before).
MaxRounds == 2

\* ------------------------------------------------------------ value sets
NULL == "null"
Addr == "0xA"
Addr2 == "0xB"
\* the accounts the wallet can answer with
Addrs == {Addr, Addr2}
Names == {"f1"}
\* the names of the buckets the Files page offers in its selector
BucketNames == {"f1", "f2"}
\* "no id held" for the variables that hold a derived id
NoKey == <<>>
\* what the session provider answers when it has no credentials
NoCreds == <<>>
\* the step dispatched no backend request
NoRequest == <<"none">>
\* no fee options held / no transaction handed to the wallet
NoOpts == <<>>
NoTx == <<>>
\* the step called getFileInfo for no pending deletion
NoProbe == <<>>
\* -1 stands for "no base fee read"
NoFee == -1

ReceiptStatuses == {"success", "reverted"}

\* answers of polkadotApi.query.fileSystem.storageRequests(fileKey)
MspProbeOutcomes == {"isNone", "mspNone", "unconfirmed", "confirmed", "rpcError"}
\* answers of mspClient.buckets.getBucket(bucketId)
BucketProbeOutcomes == {"bucket", "falsy", "e404", "eNotFoundRecord", "e401", "e500"}
\* answers of mspClient.files.getFileInfo(bucketId, fileKey)
FileStatuses == {"ready", "pending", "revoked", "rejected", "expired", "deletionInProgress"}
FileProbeOutcomes == FileStatuses \cup {"e404", "eNotFoundRecord", "e401", "e500"}

Polls == {"waitForMSPConfirmOnChain", "waitForBackendBucketReady", "waitForBackendFileReady"}
LedgerOps == {"createBucket", "deleteBucket", "uploadFile", "requestDeleteFile"}

VARIABLES
  \* clientService.ts module state
  walletClientInstance, storageHubClientInstance, polkadotApiInstance, connectedAddress,
  \* mspService.ts module state
  mspClientInstance, sessionToken, authenticatedUserProfile,
  \* page state (Files.tsx / Buckets.tsx)
  uploadProgress, createProgress, error, uploadResets, createResets,
  \* the handler in flight, the operation it is inside, and its position
  handler, op, pc, address, bucketId, fileName, fileKey, txHash, receipt, opResult,
  \* loop state of the bounded poll in flight
  pollI, probes, waits, sawOther, lastOutcome,
  \* history of the handler call in flight
  calls, txCount, did, callStep, succeeded,
  \* pending-deletion poll effect (Files.tsx)
  pendingDeletions, pollInterval, rounds,
  \* the bucket selected on the Files page, and whether the page is mounted
  selectedBucketId, mounted,
  \* AppContext state (AppContext.tsx)
  ctxIsAuthenticated, ctxUserProfile, ctxError, ctxIsWalletConnected, ctxIsMspConnected,
  \* restoreSession() in flight: the profile it read with getUserProfile()
  profile,
  \* position of the restoreWalletConnection call in flight
  restorePc,
  \* history of the session: the credentials the session provider gave to
  \* the backend request the last step dispatched (NoRequest when it
  \* dispatched none), and whether the session was invalidated and not
  \* renewed since
  reqCreds, invalidated,
  \* locals of the ledger operation in flight that its submission consumes:
  \* the fee options buildGasTxOpts returned and the base fee it read, and
  \* the metadata requestDeleteFile read from the index
  gasTxOpts, baseFeePerGas, fileInfo,
  \* the peer ids uploadFile extracted from the provider's multiaddresses
  peerIds,
  \* what the last step handed to the wallet as a transaction (NoTx when
  \* it handed none)
  txPayload,
  \* the getFileInfo(bucket, key) call the last step made for a pending
  \* deletion, as <<key, bucket, what it found>> (NoProbe when it made none)
  delProbe

clientVars == <<walletClientInstance, storageHubClientInstance, polkadotApiInstance, connectedAddress>>
mspVars == <<mspClientInstance, sessionToken, authenticatedUserProfile>>
pageVars == <<uploadProgress, createProgress, error, uploadResets, createResets>>
taskVars == <<handler, op, pc, address, bucketId, fileName, fileKey, txHash, receipt, opResult>>
pollVars == <<pollI, probes, waits, sawOther, lastOutcome>>
ghostVars == <<calls, txCount, did, callStep, succeeded>>
delVars == <<pendingDeletions, pollInterval, rounds, selectedBucketId, mounted>>
ctxVars == <<ctxIsAuthenticated, ctxUserProfile, ctxError, ctxIsWalletConnected,
            ctxIsMspConnected, profile>>
txLocals == <<gasTxOpts, baseFeePerGas, fileInfo, peerIds>>
extVars == <<ctxVars, restorePc, invalidated, txLocals>>
vars == <<clientVars, mspVars, pageVars, taskVars, pollVars, ghostVars, delVars, extVars,
          reqCreds, txPayload, delProbe>>

\* ------------------------------------------------------- pure functions
\* storageHubClient.deriveBucketId(address, bucketName)
deriveBucketId(owner, name) == <<"bucket", owner, name>>

\* fileManager.computeFileKey(owner, bucketIdH256, file.name)
computeFileKeyNoName(owner, b, name) == <<"file", owner, b, "">>
computeFileKey(owner, b, name) == <<"file", owner, b, name>>

\* the buckets the pages can have selected
Buckets == {deriveBucketId(Addr, n) : n \in Names}
\* the buckets of the account that the selector of the Files page lists
AllBuckets == {deriveBucketId(Addr, n) : n \in BucketNames}

\* A round of the pending-deletion poll: the closure of one run of the
\* interval callback.  keys and bucket are the pendingDeletions and the
\* selectedBucketId the effect captured, todo the keys the for-loop has
\* not reached, stillPending its local Set.  cancelled is history: the
\* effect that started the round was cleaned up since.
NoRound == [active |-> FALSE, keys |-> {}, todo |-> {}, stillPending |-> {},
            bucket |-> NoKey, cancelled |-> FALSE]
NewRound(pending, b) == [active |-> TRUE, keys |-> pending, todo |-> pending, stillPending |-> {},
                         bucket |-> b, cancelled |-> FALSE]
\* the cleanup of the effect ran: clearInterval, the rounds in flight go on
Cancel(rs) == [j \in DOMAIN rs |->
                 IF rs[j].active THEN [rs[j] EXCEPT !.cancelled = TRUE] ELSE rs[j]]

\* mspService.isAuthenticated()
isAuthenticated == sessionToken # NULL /\ authenticatedUserProfile # NULL

\* `receipt.status !== 'success'` guards of the four ledger operations
ReceiptOkAlways(status) == TRUE
ReceiptOk(status) == status = "success"

\* Where an operation goes once it has looked at the receipt.
AfterReceiptNoTransfer(o, status) ==
  IF ReceiptOk(status) THEN "return" ELSE "throw"
AfterReceiptRetry(o, status) ==
  IF ReceiptOk(status)
  THEN (IF o = "uploadFile" THEN "uf_computeKey" ELSE "return")
  ELSE "submit"
AfterReceipt(o, status) ==
  IF ReceiptOk(status)
  THEN (IF o = "uploadFile" THEN "uf_computeKey" ELSE "return")
  ELSE "throw"

ReceiptError(o) ==
  CASE o = "createBucket" -> "Bucket creation failed"
    [] o = "deleteBucket" -> "Bucket deletion failed"
    [] o = "uploadFile" -> "Storage request failed"
    [] o = "requestDeleteFile" -> "File deletion failed"

NoHashError(o) ==
  CASE o = "createBucket" -> "createBucket() did not return a transaction hash"
    [] o = "deleteBucket" -> "deleteBucket() did not return a transaction hash"
    [] o = "uploadFile" -> "issueStorageRequest() did not return a transaction hash"
    [] OTHER -> "none"

\* `if (!txHash) throw` is present in three of the four operations
ChecksTxHash(o) == o \in {"createBucket", "deleteBucket", "uploadFile"}

\* ------------------------------------------------------------ the polls
maxAttemptsOffByOne(p) ==
  CASE p = "waitForMSPConfirmOnChain" -> 11
    [] p = "waitForBackendBucketReady" -> 11
    [] p = "waitForBackendFileReady" -> 61
maxAttempts(p) ==
  CASE p = "waitForMSPConfirmOnChain" -> 10
    [] p = "waitForBackendBucketReady" -> 10
    [] p = "waitForBackendFileReady" -> 60

ProbeOutcomes(p) ==
  CASE p = "waitForMSPConfirmOnChain" -> MspProbeOutcomes
    [] p = "waitForBackendBucketReady" -> BucketProbeOutcomes
    [] p = "waitForBackendFileReady" -> FileProbeOutcomes

\* `err.status === 404 || err.body?.error === 'Not found: Record'`
IsNotFoundNone(outcome) == FALSE
IsNotFound(outcome) == outcome \in {"e404", "eNotFoundRecord"}

\* The error object a probe outcome stands for, when it is a rejection of
\* the getBucket / getFileInfo / storageRequests call.
ProbeError(outcome) ==
  CASE outcome = "e404" -> "HTTP 404"
    [] outcome = "eNotFoundRecord" -> "Not found: Record"
    [] outcome = "e401" -> "HTTP 401"
    [] outcome = "e500" -> "HTTP 500"
    [] outcome = "rpcError" -> "RPC error"
    [] OTHER -> "none"

\* Messages thrown by waitForBackendFileReady for terminal statuses.
FileStatusErrorMerged(status) ==
  CASE status = "revoked" -> "File upload was cancelled by user"
    [] status = "rejected" -> "Storage request expired"
    [] status = "expired" -> "Storage request expired"
    [] OTHER -> "none"
FileStatusError(status) ==
  CASE status = "revoked" -> "File upload was cancelled by user"
    [] status = "rejected" -> "File upload was rejected by MSP"
    [] status = "expired" -> "Storage request expired"
    [] OTHER -> "none"

TimeoutError(p) ==
  CASE p = "waitForMSPConfirmOnChain" -> "FileKey not confirmed by MSP after waiting"
    [] p = "waitForBackendBucketReady" -> "Bucket not found in MSP backend after waiting"
    [] p = "waitForBackendFileReady" -> "Timed out waiting for file to be ready"

\* One probe of waitForMSPConfirmOnChain: "return", "throw" or "wait".
\*   req.isNone -> throw;  mspTuple ? mspTuple[1]?.isTrue : false -> return
MspProbeStepLax(outcome) ==
  CASE outcome = "rpcError" -> "throw"
    [] outcome = "isNone" -> "wait"
    [] outcome = "confirmed" -> "return"
    [] OTHER -> "wait"
MspProbeStep(outcome) ==
  CASE outcome = "rpcError" -> "throw"
    [] outcome = "isNone" -> "throw"
    [] outcome = "confirmed" -> "return"
    [] OTHER -> "wait"

MspProbeThrown(outcome) ==
  IF outcome = "isNone" THEN "StorageRequest no longer exists on-chain"
  ELSE ProbeError(outcome)

\* One probe of waitForBackendBucketReady.
BucketProbeStepMissed(outcome) ==
  CASE outcome \in {"bucket", "falsy"} -> "wait"
    [] IsNotFound(outcome) -> "wait"
    [] OTHER -> "throw"
BucketProbeStep(outcome) ==
  CASE outcome = "bucket" -> "return"
    [] outcome = "falsy" -> "wait"
    [] IsNotFound(outcome) -> "wait"
    [] OTHER -> "throw"

\* One probe of waitForBackendFileReady.  A status error is thrown inside
\* the try block, caught by the catch clause and rethrown there because it
\* carries neither status 404 nor body.error 'Not found: Record'.
FileProbeStepNoTerminal(outcome) ==
  CASE outcome = "ready" -> "return"
    [] outcome \in {"e401", "e500"} -> "throw"
    [] OTHER -> "wait"
FileProbeStep(outcome) ==
  CASE outcome = "ready" -> "return"
    [] outcome \in {"revoked", "rejected", "expired"} -> "throw"
    [] outcome \in FileStatuses -> "wait"
    [] IsNotFound(outcome) -> "wait"
    [] OTHER -> "throw"

FileProbeThrown(outcome) ==
  IF outcome \in FileStatuses THEN FileStatusError(outcome) ELSE ProbeError(outcome)

ProbeStep(p, outcome) ==
  CASE p = "waitForMSPConfirmOnChain" -> MspProbeStep(outcome)
    [] p = "waitForBackendBucketReady" -> BucketProbeStep(outcome)
    [] p = "waitForBackendFileReady" -> FileProbeStep(outcome)

ProbeThrownGeneric(p, outcome) ==
  IF outcome \in {"e401", "e500"} THEN "Poll failed" ELSE ProbeError(outcome)
ProbeThrown(p, outcome) ==
  CASE p = "waitForMSPConfirmOnChain" -> MspProbeThrown(outcome)
    [] p = "waitForBackendBucketReady" -> ProbeError(outcome)
    [] p = "waitForBackendFileReady" -> FileProbeThrown(outcome)

\* `for (let i = 0; i < maxAttempts; i++)`: is there another iteration
\* once the wait that ends iteration i is over?
LoopContinues(p, i) == i + 1 < maxAttempts(p)

\* `addr.split('/p2p/').pop()` on one multiaddress, by its shape:
\*   withPeer  "/ip4/1.2.3.4/tcp/1/p2p/Qm"  -> "Qm"
\*   noP2p     "/ip4/1.2.3.4/tcp/1"         -> the whole string
\*   emptyPeer "/ip4/1.2.3.4/tcp/1/p2p/"    -> ""
MultiaddrShapes == {"withPeer", "noP2p", "emptyPeer"}
MultiaddrLists == {<<>>} \cup {<<a>> : a \in MultiaddrShapes}
PeerIdOf(a) ==
  CASE a = "withPeer" -> "Qm"
    [] a = "noP2p" -> "/ip4/1.2.3.4/tcp/1"
    [] a = "emptyPeer" -> ""
\* .map(...).filter((id) => !!id)
peerIdsOf(list) == SelectSeq([j \in 1..Len(list) |-> PeerIdOf(list[j])], LAMBDA id : id # "")

FileKeys == {computeFileKey(Addr, b, n) : b \in Buckets, n \in Names}

Min(a, b) == IF a < b THEN a ELSE b

\* ------------------------------------------------------------------ Init
\* State right after the modules are loaded and the pages are mounted:
\* no client instance, no session; connectedAddress is whatever
\* initFromStorage found in sessionStorage.
Init ==
  /\ walletClientInstance = FALSE
  /\ storageHubClientInstance = FALSE
  /\ polkadotApiInstance = FALSE
  /\ connectedAddress \in {NULL, Addr}
  /\ mspClientInstance = FALSE
  /\ sessionToken = NULL
  /\ authenticatedUserProfile = NULL
  /\ uploadProgress = "idle"
  /\ createProgress = "idle"
  /\ error = NULL
  /\ uploadResets = 0
  /\ createResets = 0
  /\ handler = "none"
  /\ op = "none"
  /\ pc = "idle"
  /\ address = NULL
  /\ bucketId = NoKey
  /\ fileName = NULL
  /\ fileKey = NoKey
  /\ txHash = NULL
  /\ receipt = "none"
  /\ opResult = "none"
  /\ pollI = 0
  /\ probes = 0
  /\ waits = 0
  /\ sawOther = FALSE
  /\ lastOutcome = "none"
  /\ calls = 0
  /\ txCount = 0
  /\ did = {}
  /\ callStep = "none"
  /\ succeeded = <<>>
  /\ pendingDeletions = {}
  /\ pollInterval = FALSE
  /\ rounds = [i \in 1..MaxRounds |-> NoRound]
  /\ selectedBucketId = NoKey
  /\ mounted = TRUE
  /\ delProbe = NoProbe
  /\ ctxIsAuthenticated = FALSE
  /\ ctxUserProfile = NULL
  /\ ctxError = NULL
  /\ ctxIsWalletConnected = FALSE
  /\ ctxIsMspConnected = FALSE
  /\ profile = NULL
  /\ restorePc = "idle"
  /\ reqCreds = NoRequest
  /\ invalidated = FALSE
  /\ gasTxOpts = NoOpts
  /\ baseFeePerGas = NoFee
  /\ fileInfo = NULL
  /\ peerIds = <<>>
  /\ txPayload = NoTx

\* ------------------------------------------------ control-flow helpers
Goto(p) == pc' = p /\ opResult' = opResult /\ succeeded' = succeeded
Throw(m) == pc' = "h_catch" /\ opResult' = m /\ succeeded' = succeeded
Return == pc' = "h_ret" /\ opResult' = "ok" /\ succeeded' = Append(succeeded, op)

\* The answers a probe could still give that the loop treats as
\* 'not yet visible' (kept for the history flag sawOther).
NotYetVisible(p) ==
  CASE p = "waitForMSPConfirmOnChain" -> {"mspNone", "unconfirmed"}
    [] p = "waitForBackendBucketReady" -> {"e404", "eNotFoundRecord"}
    [] p = "waitForBackendFileReady" -> {"pending", "e404", "eNotFoundRecord"}

\* A handler call begins: its locals and its history are fresh.
BeginCall(h, firstOp, firstPc) ==
  /\ handler = "none"
  /\ calls < MaxCalls
  /\ calls' = calls + 1
  /\ handler' = h
  /\ op' = firstOp
  /\ pc' = firstPc
  /\ address' = NULL
  /\ fileKey' = NoKey
  /\ txHash' = NULL
  /\ receipt' = "none"
  /\ opResult' = "none"
  /\ txCount' = 0
  /\ did' = {}
  /\ succeeded' = <<>>
  /\ pollI' = 0 /\ probes' = 0 /\ waits' = 0
  /\ sawOther' = FALSE /\ lastOutcome' = "none"

\* A handler call is over: nothing of it stays on the stack.
EndCall ==
  /\ handler' = "none"
  /\ op' = "none"
  /\ pc' = "idle"
  /\ address' = NULL
  /\ bucketId' = NoKey
  /\ fileName' = NULL
  /\ fileKey' = NoKey
  /\ txHash' = NULL
  /\ receipt' = "none"
  /\ opResult' = "none"
  /\ txCount' = 0
  /\ did' = {}
  /\ succeeded' = <<>>
  /\ pollI' = 0 /\ probes' = 0 /\ waits' = 0
  /\ sawOther' = FALSE /\ lastOutcome' = "none"
  /\ UNCHANGED calls

\* Frame of a step inside an operation: only pc, opResult, succeeded and
\* what the step names may change.
opFrame == <<clientVars, mspVars, pageVars, delVars, extVars, handler, op, callStep, calls>>
localsFrame == <<address, bucketId, fileName, fileKey, txHash, receipt>>

\* ------------------------------------------- clientService / mspService
\* sessionProvider(): what the MSP client attaches to a backend request;
\* it is called by the client for every request, when the request is sent.
\* A token is modelled by the identity it was issued for.
sessionProvider ==
  IF sessionToken # NULL /\ connectedAddress # NULL
  THEN <<sessionToken, connectedAddress>>
  ELSE NoCreds

\* the step dispatches a backend request / dispatches none
\* (neither hands a transaction to the wallet)
Dispatch == reqCreds' = sessionProvider /\ txPayload' = NoTx /\ delProbe' = NoProbe
Quiet == reqCreds' = NoRequest /\ txPayload' = NoTx /\ delProbe' = NoProbe

\* connectWallet(): eth_requestAccounts, switchToCorrectNetwork, then the
\* address and both clients are set in one synchronous run.  When one of
\* the awaits rejects nothing was written.
connectWallet(a) ==
  /\ handler = "none"
  /\ connectedAddress' = a
  /\ walletClientInstance' = TRUE
  /\ storageHubClientInstance' = TRUE
  /\ UNCHANGED <<polkadotApiInstance, mspVars, pageVars, taskVars, pollVars, ghostVars, delVars, extVars>>
  /\ Quiet

\* the three assignments of disconnectWallet()
ClearWallet ==
  /\ walletClientInstance' = FALSE
  /\ storageHubClientInstance' = FALSE
  /\ connectedAddress' = NULL

disconnectWallet ==
  /\ handler = "none"
  /\ ClearWallet
  /\ UNCHANGED <<polkadotApiInstance, mspVars, pageVars, taskVars, pollVars, ghostVars, delVars, extVars>>
  /\ Quiet

\* restoreWalletConnection(): `if (!connectedAddress) return null`, then
\* the await of eth_accounts
restoreWalletConnection_begin ==
  /\ handler = "none"
  /\ restorePc = "idle"
  /\ connectedAddress # NULL
  /\ restorePc' = "accounts"
  /\ UNCHANGED <<clientVars, mspVars, pageVars, taskVars, pollVars, ghostVars, delVars, ctxVars, invalidated, txLocals>>
  /\ Quiet

\* eth_accounts answered: connectedAddress.toLowerCase() (a TypeError,
\* caught, when the address was cleared meanwhile), isStillConnected, and
\* the await of switchToCorrectNetwork
restoreWalletConnection_accounts ==
  /\ handler = "none"
  /\ restorePc = "accounts"
  /\ \E r \in {"throws", "gone", "still"} :
       IF connectedAddress = NULL \/ r # "still"
       THEN ClearWallet /\ restorePc' = "idle"
       ELSE /\ restorePc' = "switch"
            /\ UNCHANGED <<walletClientInstance, storageHubClientInstance, connectedAddress>>
  /\ UNCHANGED <<polkadotApiInstance, mspVars, pageVars, taskVars, pollVars, ghostVars, delVars, ctxVars, invalidated, txLocals>>
  /\ Quiet

\* switchToCorrectNetwork answered: both clients are re-created for
\* whatever connectedAddress holds now; a rejection lands in the catch
restoreWalletConnection_switch ==
  /\ handler = "none"
  /\ restorePc = "switch"
  /\ restorePc' = "idle"
  /\ \E ok \in BOOLEAN :
       IF ok
       THEN /\ walletClientInstance' = TRUE
            /\ storageHubClientInstance' = TRUE
            /\ UNCHANGED connectedAddress
       ELSE ClearWallet
  /\ UNCHANGED <<polkadotApiInstance, mspVars, pageVars, taskVars, pollVars, ghostVars, delVars, ctxVars, invalidated, txLocals>>
  /\ Quiet
initPolkadotApi ==
  /\ handler = "none"
  /\ polkadotApiInstance' = TRUE
  /\ UNCHANGED <<walletClientInstance, storageHubClientInstance, connectedAddress,
                 mspVars, pageVars, taskVars, pollVars, ghostVars, delVars, extVars>>
  /\ Quiet
connectToMsp ==
  /\ handler = "none"
  /\ mspClientInstance' = TRUE
  /\ UNCHANGED <<sessionToken, authenticatedUserProfile,
                 clientVars, pageVars, taskVars, pollVars, ghostVars, delVars, extVars>>
  /\ Quiet

\* the session is invalidated
Invalidated == invalidated' = TRUE /\ Quiet

\* disconnectMsp(): may run while a call is in flight (a poll goes on
\* with the client it captured)
disconnectMspKeepsToken ==
  /\ mspClientInstance' = FALSE
  /\ authenticatedUserProfile' = NULL
  /\ Invalidated
  /\ UNCHANGED <<sessionToken, clientVars, pageVars, taskVars, pollVars, ghostVars, delVars,
                 ctxVars, restorePc, txLocals>>
disconnectMsp ==
  /\ mspClientInstance' = FALSE
  /\ sessionToken' = NULL
  /\ authenticatedUserProfile' = NULL
  /\ Invalidated
  /\ UNCHANGED <<clientVars, pageVars, taskVars, pollVars, ghostVars, delVars, ctxVars, restorePc, txLocals>>

\* AppContext.disconnect(): disconnectWallet(); disconnectMsp(); setState
disconnect ==
  /\ ClearWallet
  /\ mspClientInstance' = FALSE
  /\ sessionToken' = NULL
  /\ authenticatedUserProfile' = NULL
  /\ Invalidated
  /\ ctxIsWalletConnected' = FALSE
  /\ ctxIsMspConnected' = FALSE
  /\ ctxIsAuthenticated' = FALSE
  /\ ctxUserProfile' = NULL
  /\ UNCHANGED <<polkadotApiInstance, pageVars, taskVars, pollVars, ghostVars, delVars,
                 ctxError, profile, restorePc, txLocals>>

\* authenticateUser(): getMspClient(), getWalletClient(), then the SIWE
\* exchange and the profile fetch, each an await.  The call keeps the two
\* clients it took: the wallet client signs for the account it was made
\* for (held in opResult while the exchange is pending).
authenticateUser_begin(next) ==
  IF ~mspClientInstance THEN Throw("MSP client not connected")
  ELSE IF ~walletClientInstance THEN Throw("Wallet not connected. Please connect your wallet first.")
  ELSE pc' = next /\ opResult' = connectedAddress /\ succeeded' = succeeded

\* AppContext.authenticateUser(): setError(null); await authUser()
authenticateUser_call ==
  /\ BeginCall("authenticateUser", "authenticateUser", "au_start")
  /\ ctxError' = NULL
  /\ UNCHANGED <<clientVars, mspVars, pageVars, delVars,
                 ctxIsAuthenticated, ctxUserProfile, ctxIsWalletConnected, ctxIsMspConnected,
                 profile, invalidated, restorePc, txLocals,
                 bucketId, fileName, callStep>>
  /\ Quiet
authenticateUser_start ==
  /\ pc = "au_start"
  /\ authenticateUser_begin("au_siwe")
  /\ UNCHANGED <<opFrame, localsFrame, pollVars, txCount, did>>
  /\ Quiet

\* client.auth.SIWE(walletClient, domain, uri); sessionToken = token.
\* The wallet signs for its account; without one there is nothing to sign.
\* getProfile() is sent at once, with what the session provider supplies
\* then (held in opResult while the request is pending: the token, or NULL
\* when no address is connected).
authenticateUser_SIWE ==
  /\ pc = "au_siwe"
  /\ Dispatch
  /\ \E ok \in (IF opResult = NULL THEN {FALSE} ELSE BOOLEAN) :
       IF ok
       THEN /\ sessionToken' = opResult
            /\ invalidated' = FALSE
            /\ pc' = "au_profile"
            /\ opResult' = (IF connectedAddress = NULL THEN NULL ELSE opResult)
            /\ succeeded' = succeeded
       ELSE /\ UNCHANGED <<sessionToken, invalidated>>
            /\ Throw("SIWE failed")
  /\ did' = did \cup {"authenticate"}
  /\ UNCHANGED <<clientVars, mspClientInstance, authenticatedUserProfile, pageVars, delVars,
                 ctxVars, restorePc, txLocals,
                 handler, op, callStep, calls, localsFrame, pollVars, txCount>>

\* client.auth.getProfile(); authenticatedUserProfile = profile.  The
\* backend answers with the profile of the identity the token presented
\* was issued for, and rejects a request that carries no credentials.
authenticateUser_getProfile ==
  /\ pc = "au_profile"
  /\ Dispatch
  /\ \E ok \in (IF opResult = NULL THEN {FALSE} ELSE BOOLEAN) :
       IF ok
       THEN /\ authenticatedUserProfile' = opResult
            /\ IF op = "uploadFile"
               THEN pc' = "uf_transfer" /\ opResult' = "none" /\ succeeded' = succeeded
               ELSE /\ pc' = "h_ret"
                    /\ opResult' = opResult
                    /\ succeeded' = Append(succeeded, op)
       ELSE /\ UNCHANGED authenticatedUserProfile
            /\ Throw("getProfile failed")
  /\ UNCHANGED <<clientVars, mspClientInstance, sessionToken, pageVars, delVars,
                 ctxVars, restorePc, txLocals, invalidated,
                 handler, op, callStep, calls, localsFrame, pollVars, txCount, did>>

\* back in AppContext.authenticateUser(): setState({isAuthenticated: true,
\* userProfile: profile}), or setError(message) in its catch
authenticateUser_done ==
  /\ handler = "authenticateUser"
  /\ pc \in {"h_ret", "h_catch"}
  /\ IF pc = "h_ret"
     THEN /\ ctxIsAuthenticated' = TRUE
          /\ ctxUserProfile' = opResult
          /\ UNCHANGED ctxError
     ELSE /\ ctxError' = opResult
          /\ UNCHANGED <<ctxIsAuthenticated, ctxUserProfile>>
  /\ EndCall
  /\ UNCHANGED <<ctxIsWalletConnected, ctxIsMspConnected, profile, clientVars, mspVars, pageVars, delVars, invalidated, restorePc, txLocals, callStep>>
  /\ Quiet

\* ------------------------------------------ AppContext: connect, restore
\* The provider has mounted: its mount effect has started restoreSession()
Mounted == restorePc # "idle"

\* A call of the context begins in the handler slot; these calls are not
\* counted, they hold no history.
BeginContextCall(h, firstPc) ==
  /\ Mounted
  /\ handler = "none"
  /\ handler' = h
  /\ op' = h
  /\ pc' = firstPc
  /\ opResult' = "none"
  /\ ctxError' = NULL
  /\ UNCHANGED <<clientVars, mspVars, pageVars, delVars, pollVars, ghostVars,
                 ctxIsAuthenticated, ctxUserProfile, ctxIsWalletConnected, ctxIsMspConnected,
                 profile, invalidated, restorePc, txLocals, localsFrame>>
  /\ Quiet

\* AppContext.connectWallet(): setError(null); await connectWalletService();
\* await initPolkadotApi(); setState(isWalletConnected: true).  The
\* Dashboard offers it while the state shows no wallet.
connectWallet_call ==
  /\ ~ctxIsWalletConnected
  /\ BeginContextCall("connectWallet", "cw_service")
connectWallet_service ==
  /\ pc = "cw_service"
  /\ \E a \in Addrs \cup {NULL} :
       IF a = NULL
       THEN Throw("User rejected the request") /\ UNCHANGED clientVars
       ELSE /\ connectedAddress' = a
            /\ walletClientInstance' = TRUE
            /\ storageHubClientInstance' = TRUE
            /\ polkadotApiInstance' = TRUE
            /\ Return
  /\ UNCHANGED <<mspVars, pageVars, delVars, extVars, handler, op, callStep, calls,
                 localsFrame, pollVars, txCount, did>>
  /\ Quiet
connectWallet_done ==
  /\ handler = "connectWallet"
  /\ pc \in {"h_ret", "h_catch"}
  /\ IF pc = "h_ret"
     THEN ctxIsWalletConnected' = TRUE /\ UNCHANGED ctxError
     ELSE ctxError' = opResult /\ UNCHANGED ctxIsWalletConnected
  /\ EndCall
  /\ UNCHANGED <<ctxIsAuthenticated, ctxUserProfile, ctxIsMspConnected, profile, clientVars,
                 mspVars, pageVars, delVars, invalidated, restorePc, txLocals, callStep>>
  /\ Quiet

\* AppContext.connectMsp(): setError(null); await connectToMsp(); await
\* getMspInfo(); setState(isMspConnected: true).  The Dashboard offers it
\* while the state shows a wallet and no provider.
connectMsp_call ==
  /\ ctxIsWalletConnected
  /\ ~ctxIsMspConnected
  /\ BeginContextCall("connectMsp", "cm_connect")
\* connectToMsp(): mspClientInstance = await MspClient.connect(...); with
\* the client just set getMspInfo() takes it and sends its request
connectMsp_connectToMsp ==
  /\ pc = "cm_connect"
  /\ \E ok \in BOOLEAN :
       IF ok \/ mspClientInstance
       THEN mspClientInstance' = TRUE /\ Goto("cm_info") /\ Dispatch
       ELSE UNCHANGED mspClientInstance /\ Throw("Failed to connect to MSP") /\ Quiet
  /\ UNCHANGED <<clientVars, sessionToken, authenticatedUserProfile, pageVars, delVars, extVars,
                 handler, op, callStep, calls, localsFrame, pollVars, txCount, did>>
\* getMspInfo(): client.info.getInfo() answers the client that sent it
connectMsp_getMspInfo ==
  /\ pc = "cm_info"
  /\ \E ok \in BOOLEAN : IF ok THEN Return ELSE Throw("HTTP 500")
  /\ UNCHANGED <<opFrame, localsFrame, pollVars, txCount, did>>
  /\ Quiet
connectMsp_done ==
  /\ handler = "connectMsp"
  /\ pc \in {"h_ret", "h_catch"}
  /\ IF pc = "h_ret"
     THEN ctxIsMspConnected' = TRUE /\ UNCHANGED ctxError
     ELSE ctxError' = opResult /\ UNCHANGED ctxIsMspConnected
  /\ EndCall
  /\ UNCHANGED <<ctxIsAuthenticated, ctxUserProfile, ctxIsWalletConnected, profile, clientVars,
                 mspVars, pageVars, delVars, invalidated, restorePc, txLocals, callStep>>
  /\ Quiet

\* restoreSession() of the mount effect: `if (!persistedAddress) return`
restoreSession_begin ==
  /\ restorePc = "idle"
  /\ restorePc' = (IF connectedAddress = NULL THEN "rs_done" ELSE "rs_wallet")
  /\ UNCHANGED <<clientVars, mspVars, pageVars, taskVars, pollVars, ghostVars, delVars, ctxVars,
                 invalidated, txLocals>>
  /\ Quiet
\* await restoreWalletConnection(), its two awaits taken together: the
\* persisted address is still among the wallet's accounts and both clients
\* are re-created, or the wallet state is cleared and null returned
restoreSession_restoreWalletConnection ==
  /\ restorePc = "rs_wallet"
  /\ \E r \in {"throws", "gone", "still"} :
       IF connectedAddress = NULL \/ r # "still"
       THEN ClearWallet /\ restorePc' = "rs_done"
       ELSE /\ walletClientInstance' = TRUE
            /\ storageHubClientInstance' = TRUE
            /\ UNCHANGED connectedAddress
            /\ restorePc' = "rs_api"
  /\ UNCHANGED <<polkadotApiInstance, mspVars, pageVars, taskVars, pollVars, ghostVars, delVars,
                 ctxVars, invalidated, txLocals>>
  /\ Quiet
\* await initPolkadotApi(); isAuth = checkAuth(); profile = getUserProfile();
\* without a session setState(isWalletConnected: true) ends the restore
restoreSession_checkAuth ==
  /\ restorePc = "rs_api"
  /\ \E ok \in BOOLEAN :
       IF ~ok
       THEN /\ restorePc' = "rs_done"
            /\ UNCHANGED <<polkadotApiInstance, ctxIsWalletConnected, profile>>
       ELSE /\ polkadotApiInstance' = TRUE
            /\ IF isAuthenticated
               THEN /\ restorePc' = "rs_info"
                    /\ profile' = authenticatedUserProfile
                    /\ UNCHANGED ctxIsWalletConnected
               ELSE /\ restorePc' = "rs_done"
                    /\ ctxIsWalletConnected' = TRUE
                    /\ UNCHANGED profile
  /\ UNCHANGED <<walletClientInstance, storageHubClientInstance, connectedAddress, mspVars,
                 pageVars, taskVars, pollVars, ghostVars, delVars, ctxIsAuthenticated,
                 ctxUserProfile, ctxError, ctxIsMspConnected, invalidated, txLocals>>
  /\ Quiet
\* with a session: await connectToMsp(); await getMspInfo(), taken
\* together, then setState with the three flags true and the profile read
\* before; a rejection lands in the empty catch
restoreSession_getMspInfo ==
  /\ restorePc = "rs_info"
  /\ restorePc' = "rs_done"
  /\ profile' = NULL
  /\ \E r \in {"ok", "connectFails", "infoFails"} :
       /\ mspClientInstance' = (mspClientInstance \/ r # "connectFails")
       /\ IF mspClientInstance' THEN Dispatch ELSE Quiet
       /\ IF r = "ok" \/ (r = "connectFails" /\ mspClientInstance)
          THEN /\ ctxIsWalletConnected' = TRUE
               /\ ctxIsMspConnected' = TRUE
               /\ ctxIsAuthenticated' = TRUE
               /\ ctxUserProfile' = profile
          ELSE UNCHANGED <<ctxIsWalletConnected, ctxIsMspConnected, ctxIsAuthenticated,
                           ctxUserProfile>>
  /\ UNCHANGED <<clientVars, sessionToken, authenticatedUserProfile, pageVars, taskVars,
                 pollVars, ghostVars, delVars, ctxError, invalidated, txLocals>>

\* --------------------------------------- the ledger transaction submitter
\* the base fees the latest block can carry
BaseFees == {0, 7, 300000000}

\* const gas = BigInt('1500000'); maxPriorityFeePerGas = BigInt('1500000000')
gas == 1500000
maxPriorityFeePerGas == 1500000000

\* maxFeePerGas = baseFeePerGas * BigInt(2) + maxPriorityFeePerGas;
\* return { gas, maxFeePerGas, maxPriorityFeePerGas }
EvmWriteOptionsNoHeadroom(baseFee) == <<gas, baseFee + maxPriorityFeePerGas, maxPriorityFeePerGas>>
EvmWriteOptions(baseFee) == <<gas, baseFee * 2 + maxPriorityFeePerGas, maxPriorityFeePerGas>>

\* Frame of the steps that write the locals the submission consumes.
txFrame == <<clientVars, mspVars, pageVars, delVars, ctxVars, restorePc, invalidated,
             handler, op, callStep, calls>>

\* buildGasTxOpts(): getBlock('latest'), baseFeePerGas == null -> throw.
\* A failure ends the operation: its locals are gone.
buildGasTxOpts ==
  /\ pc = "gas"
  /\ op \in LedgerOps
  /\ \E r \in {"rpcError", "noBaseFee", "ok"} :
       CASE r = "rpcError" ->
              /\ Throw("RPC error")
              /\ gasTxOpts' = NoOpts /\ baseFeePerGas' = NoFee /\ fileInfo' = NULL /\ peerIds' = <<>>
         [] r = "noBaseFee" ->
              /\ Throw("RPC did not return baseFeePerGas for the latest block")
              /\ gasTxOpts' = NoOpts /\ baseFeePerGas' = NoFee /\ fileInfo' = NULL /\ peerIds' = <<>>
         [] r = "ok" ->
              /\ Goto("submit")
              /\ \E baseFee \in BaseFees :
                   /\ baseFeePerGas' = baseFee
                   /\ gasTxOpts' = EvmWriteOptions(baseFee)
              /\ UNCHANGED <<fileInfo, peerIds>>
  /\ did' = did \cup {"gas"}
  /\ UNCHANGED <<txFrame, localsFrame, pollVars, txCount>>
  /\ Quiet

\* storageHubClient.createBucket / deleteBucket / issueStorageRequest /
\* requestDeleteFile: the one call that hands a transaction to the wallet.
\* The arguments of the submission besides the fee options:
\* requestDeleteFile(fileInfo, gasTxOpts) passes the metadata it read,
\* issueStorageRequest(..., peerIds, ..., gasTxOpts) the peer ids.
TxMetadataFresh(o, info) ==
  IF o = "requestDeleteFile" THEN "info0" ELSE IF o = "uploadFile" THEN info ELSE NULL
TxMetadata(o, info) == IF o \in {"requestDeleteFile", "uploadFile"} THEN info ELSE NULL

submitTransaction ==
  /\ pc = "submit"
  /\ op \in LedgerOps
  /\ txCount' = txCount + 1
  /\ did' = did \cup {"submit"}
  /\ txPayload' = <<op, TxMetadata(op, IF op = "uploadFile" THEN peerIds ELSE fileInfo), gasTxOpts>>
  /\ reqCreds' = NoRequest
  /\ delProbe' = NoProbe
  /\ gasTxOpts' = NoOpts /\ baseFeePerGas' = NoFee /\ fileInfo' = NULL /\ peerIds' = <<>>
  /\ \E r \in {"rejected", "undefined", "hash"} :
       CASE r = "rejected" -> Throw("Submission rejected") /\ UNCHANGED txHash
         [] r = "undefined" ->
              /\ UNCHANGED txHash
              /\ IF ChecksTxHash(op) THEN Throw(NoHashError(op)) ELSE Goto("receipt")
         [] r = "hash" -> Goto("receipt") /\ txHash' = "0xtx"
  /\ UNCHANGED <<txFrame, address, bucketId, fileName, fileKey, receipt, pollVars>>

\* publicClient.waitForTransactionReceipt({ hash }) and the status check
waitForTransactionReceipt ==
  /\ pc = "receipt"
  /\ op \in LedgerOps
  /\ \E r \in (IF txHash = NULL THEN {"throws"} ELSE {"throws"} \cup ReceiptStatuses) :
       IF r = "throws"
       THEN Throw("waitForTransactionReceipt failed") /\ UNCHANGED receipt
       ELSE /\ receipt' = r
            /\ LET nxt == AfterReceipt(op, r) IN
                 CASE nxt = "throw" -> Throw(ReceiptError(op))
                   [] nxt = "return" -> Return
                   [] OTHER -> Goto(nxt)
  /\ did' = did \cup {"receipt"}
  /\ UNCHANGED <<opFrame, address, bucketId, fileName, fileKey, txHash, pollVars, txCount>>
  /\ Quiet

\* -------------------------------------------------------------- uploadFile
uploadFile_getters ==
  /\ pc = "uf_getters"
  /\ address' = connectedAddress
  /\ IF ~storageHubClientInstance THEN Throw("StorageHub client not initialized")
     ELSE IF ~polkadotApiInstance THEN Throw("Polkadot API not initialized")
     ELSE IF ~mspClientInstance THEN Throw("MSP client not connected")
     ELSE IF connectedAddress = NULL THEN Throw("Wallet not connected")
     ELSE Goto("uf_mspInfo")
  /\ UNCHANGED <<opFrame, bucketId, fileName, fileKey, txHash, receipt, pollVars, txCount, did>>
  /\ Quiet
uploadFile_getMspInfo ==
  /\ pc = "uf_mspInfo"
  /\ IF ~mspClientInstance
     THEN Throw("MSP client not connected") /\ Quiet /\ UNCHANGED <<peerIds, lastOutcome>>
     ELSE /\ Dispatch
          /\ \E r \in {"throws", "missing", "list"}, list \in MultiaddrLists :
               CASE r = "throws" -> Throw("HTTP 500") /\ UNCHANGED <<peerIds, lastOutcome>>
                 [] r = "missing" ->
                      /\ Throw("MSP multiaddresses are missing")
                      /\ lastOutcome' = "noMultiaddresses"
                      /\ UNCHANGED peerIds
                 [] r = "list" ->
                      /\ lastOutcome' = (IF Len(list) = 0 THEN "noMultiaddresses" ELSE list[1])
                      /\ IF Len(list) = 0
                         THEN Throw("MSP multiaddresses are missing") /\ UNCHANGED peerIds
                         ELSE IF Len(peerIdsOf(list)) = 0
                              THEN /\ Throw("MSP multiaddresses had no /p2p/<peerId> segment")
                                   /\ UNCHANGED peerIds
                              ELSE Goto("gas") /\ peerIds' = peerIdsOf(list)
  /\ UNCHANGED <<txFrame, gasTxOpts, baseFeePerGas, fileInfo, localsFrame,
                 pollI, probes, waits, sawOther, txCount, did>>

\* computeFileKey, then the read-back of the storage request by that key
\* if (!storageRequest.isSome) throw: where uploadFile goes on the answer of
\* the read of fileSystem.storageRequests(fileKey)
storageRequestIgnored(r) ==
  CASE r = "requestIsSome" -> "uf_auth"
    [] r = "requestIsNone" -> "uf_auth"
    [] r = "requestReadFails" -> "throw"
storageRequest(r) ==
  CASE r = "requestIsSome" -> "uf_auth"
    [] r = "requestIsNone" -> "throw"
    [] r = "requestReadFails" -> "throw"

uploadFile_verifyStorageRequest ==
  /\ pc = "uf_computeKey"
  /\ fileKey' = computeFileKey(address, bucketId, fileName)
  /\ did' = did \cup {"readBack"}
  /\ \E r \in {"requestIsSome", "requestIsNone", "requestReadFails"} :
       /\ lastOutcome' = r
       /\ IF storageRequest(r) = "throw"
          THEN Throw(IF r = "requestIsNone" THEN "Storage request not found on chain"
                                             ELSE "RPC error")
          ELSE Goto(storageRequest(r))
  /\ UNCHANGED <<opFrame, address, bucketId, fileName, txHash, receipt,
                 pollI, probes, waits, sawOther, txCount>>
  /\ Quiet

\* if (!isAuthenticated()) await authenticateUser();
uploadFile_authenticate ==
  /\ pc = "uf_auth"
  /\ IF isAuthenticated THEN Goto("uf_transfer") ELSE authenticateUser_begin("au_siwe")
  /\ UNCHANGED <<opFrame, localsFrame, pollVars, txCount, did>>
  /\ Quiet

\* mspClient.files.uploadFile(bucketId, fileKey, fileBlob, address, name)
uploadFile_transfer ==
  /\ pc = "uf_transfer"
  /\ did' = did \cup {"transfer"}
  /\ Dispatch
  /\ \E r \in {"upload_successful", "other", "throws"} :
       CASE r = "upload_successful" -> Return
         [] r = "other" -> Throw("File upload to MSP failed")
         [] r = "throws" -> Throw("HTTP 500")
  /\ UNCHANGED <<opFrame, localsFrame, pollVars, txCount>>

\* ------------------------------------------------------------------ polls
\* the polls whose probe is a request to the backend
BackendPolls == {"waitForBackendBucketReady", "waitForBackendFileReady"}

\* Entry of a poll: its getter, then the first iteration of the loop.
PollGetterOk(p) ==
  IF p = "waitForMSPConfirmOnChain" THEN polkadotApiInstance ELSE mspClientInstance

StartPoll(p) ==
  /\ op' = p
  /\ pollI' = 0 /\ probes' = 0 /\ waits' = 0
  /\ sawOther' = FALSE /\ lastOutcome' = "none"
  /\ IF PollGetterOk(p)
     THEN pc' = "poll_probe" /\ opResult' = "none"
     ELSE pc' = "h_catch" /\ opResult' = "client not initialized"

\* the probe of iteration pollI and the branches taken on its answer
pollProbe ==
  /\ pc = "poll_probe"
  /\ op \in Polls
  /\ probes' = probes + 1
  /\ did' = did \cup {"probe"}
  /\ \E o \in ProbeOutcomes(op) :
       /\ lastOutcome' = o
       /\ LET nxt == ProbeStep(op, o) IN
            CASE nxt = "return" -> Return
              [] nxt = "throw" -> Throw(ProbeThrown(op, o))
              [] OTHER -> Goto("poll_wait")
  /\ sawOther' = (sawOther \/ (lastOutcome # "none" /\ lastOutcome \notin NotYetVisible(op)))
  /\ IF op \in BackendPolls THEN Dispatch ELSE Quiet
  /\ UNCHANGED <<opFrame, localsFrame, pollI, waits, txCount>>

\* await new Promise((r) => setTimeout(r, delayMs)); i++; i < maxAttempts ?
pollWait ==
  /\ pc = "poll_wait"
  /\ op \in Polls
  /\ waits' = waits + 1
  /\ pollI' = pollI + 1
  /\ IF LoopContinues(op, pollI) THEN Goto("poll_probe") ELSE Throw(TimeoutError(op))
  /\ UNCHANGED <<opFrame, localsFrame, probes, sawOther, lastOutcome, txCount, did>>
  /\ Quiet

\* ------------------------------------------------- handleUpload (Files)
\* The progress steps handleUpload writes, in the order it writes them.
UploadStepAfterSwapped(o) ==
  CASE o = "start" -> "preparing"
    [] o = "delay" -> "issuing"
    [] o = "uploadFile" -> "finalizing"
    [] o = "waitForMSPConfirmOnChain" -> "confirming"
    [] o = "waitForBackendFileReady" -> "done"
UploadStepAfter(o) ==
  CASE o = "start" -> "preparing"
    [] o = "delay" -> "issuing"
    [] o = "uploadFile" -> "confirming"
    [] o = "waitForMSPConfirmOnChain" -> "finalizing"
    [] o = "waitForBackendFileReady" -> "done"

\* Upload button: enabled only in step idle, done or error.
FormEnabled(step) == step \in {"idle", "done", "error"}

handleUpload_start ==
  /\ FormEnabled(uploadProgress)
  /\ selectedBucketId # NoKey
  /\ bucketId' = selectedBucketId
  /\ \E n \in Names : fileName' = n
  /\ BeginCall("handleUpload", "none", "hu_preparing")
  /\ error' = NULL
  /\ uploadProgress' = UploadStepAfter("start")
  /\ callStep' = UploadStepAfter("start")
  /\ UNCHANGED <<clientVars, mspVars, delVars, extVars, createProgress, uploadResets, createResets>>
  /\ Quiet
handleUpload_issuing ==
  /\ handler = "handleUpload"
  /\ pc = "hu_preparing"
  /\ uploadProgress' = UploadStepAfter("delay")
  /\ callStep' = UploadStepAfter("delay")
  /\ op' = "uploadFile"
  /\ pc' = "uf_getters"
  /\ UNCHANGED <<clientVars, mspVars, delVars, extVars, createProgress, error, uploadResets, createResets,
                 handler, localsFrame, opResult, pollVars, calls, txCount, did, succeeded>>
  /\ Quiet
handleUpload_confirming ==
  /\ handler = "handleUpload"
  /\ pc = "h_ret"
  /\ op = "uploadFile"
  /\ uploadProgress' = UploadStepAfter(op)
  /\ callStep' = UploadStepAfter(op)
  /\ StartPoll("waitForMSPConfirmOnChain")
  /\ UNCHANGED <<clientVars, mspVars, delVars, extVars, createProgress, error, uploadResets, createResets,
                 handler, localsFrame, calls, txCount, did, succeeded>>
  /\ Quiet
handleUpload_finalizing ==
  /\ handler = "handleUpload"
  /\ pc = "h_ret"
  /\ op = "waitForMSPConfirmOnChain"
  /\ uploadProgress' = UploadStepAfter(op)
  /\ callStep' = UploadStepAfter(op)
  /\ StartPoll("waitForBackendFileReady")
  /\ UNCHANGED <<clientVars, mspVars, delVars, extVars, createProgress, error, uploadResets, createResets,
                 handler, localsFrame, calls, txCount, did, succeeded>>
  /\ Quiet
handleUpload_done ==
  /\ handler = "handleUpload"
  /\ pc = "h_ret"
  /\ op = "waitForBackendFileReady"
  /\ uploadProgress' = UploadStepAfter(op)
  /\ callStep' = UploadStepAfter(op)
  /\ pc' = "hu_loadFiles"
  /\ op' = "none"
  /\ UNCHANGED <<clientVars, mspVars, delVars, extVars, createProgress, error, uploadResets, createResets,
                 handler, localsFrame, opResult, pollVars, calls, txCount, did, succeeded>>
  /\ Quiet

\* loadFiles(): setError(null), then the listing; its own catch turns a
\* failure into setError(message), so it never throws to its caller.
\* getBucketFilesFromMSP() starts with getMspClient(), which throws when
\* there is no client: then no request is sent.
loadFilesAnswers == {"ok", "e500", "e401"}
loadFiles(r) ==
  IF ~mspClientInstance
  THEN error' = (IF mounted THEN "MSP client not connected" ELSE error) /\ Quiet
  ELSE /\ Dispatch
       /\ error' = (IF ~mounted THEN error ELSE IF r = "ok" THEN NULL ELSE ProbeError(r))

\* await loadFiles(); setTimeout(() => setUploadProgress(idle), 2000)
handleUpload_refresh ==
  /\ handler = "handleUpload"
  /\ pc = "hu_loadFiles"
  /\ \E r \in loadFilesAnswers : loadFiles(r)
  /\ uploadResets' = Min(uploadResets + 1, MaxPendingResets)
  /\ EndCall
  /\ UNCHANGED <<clientVars, mspVars, delVars, ctxVars, restorePc, txLocals, invalidated,
                 uploadProgress, createProgress, createResets, callStep>>

handleUpload_catch ==
  /\ handler = "handleUpload"
  /\ pc = "h_catch"
  /\ uploadProgress' = "error"
  /\ callStep' = "error"
  /\ error' = opResult
  /\ EndCall
  /\ UNCHANGED <<clientVars, mspVars, delVars, extVars, createProgress, uploadResets, createResets>>
  /\ Quiet

\* the delayed reset scheduled by a completed upload fires
uploadResetFires ==
  /\ uploadResets > 0
  /\ uploadResets' = uploadResets - 1
  /\ uploadProgress' = "idle"
  /\ UNCHANGED <<clientVars, mspVars, delVars, extVars, createProgress, error, createResets,
                 taskVars, pollVars, ghostVars>>
  /\ Quiet

\* -------------------------------------------- createBucket and its page
createBucket_getters ==
  /\ pc = "cb_getters"
  /\ address' = connectedAddress
  /\ IF ~storageHubClientInstance THEN Throw("StorageHub client not initialized")
     ELSE IF ~polkadotApiInstance THEN Throw("Polkadot API not initialized")
     ELSE IF connectedAddress = NULL THEN Throw("Wallet not connected")
     ELSE Goto("cb_mspInfo")
  /\ UNCHANGED <<opFrame, bucketId, fileName, fileKey, txHash, receipt, pollVars, txCount, did>>
  /\ Quiet

\* getMspInfo() and getValueProps()
createBucket_getMspInfo ==
  /\ pc = "cb_mspInfo"
  /\ IF ~mspClientInstance
     THEN Throw("MSP client not connected") /\ Quiet
     ELSE /\ Dispatch
          /\ \E r \in {"throws", "noValueProps", "ok"} :
               CASE r = "throws" -> Throw("HTTP 500")
                 [] r = "noValueProps" -> Throw("No value propositions available from MSP")
                 [] r = "ok" -> Goto("cb_derive")
  /\ UNCHANGED <<opFrame, localsFrame, pollVars, txCount, did>>

\* What createBucket does with the answer of providers.buckets(bucketId)
\* before the creation: `if (!bucketBeforeCreation.isEmpty) throw`.
bucketBeforeCreationIgnored(r) ==
  CASE r = "noBucketYet" -> "gas"
    [] r = "bucketExists" -> "gas"
    [] r = "bucketReadFails" -> "throw"
bucketBeforeCreation(r) ==
  CASE r = "noBucketYet" -> "gas"
    [] r = "bucketExists" -> "throw"
    [] r = "bucketReadFails" -> "throw"

\* deriveBucketId(address, bucketName), then the look-up by that id
createBucket_derive ==
  /\ pc = "cb_derive"
  /\ bucketId' = deriveBucketId(address, fileName)
  /\ did' = did \cup {"existsCheck"}
  /\ \E r \in {"noBucketYet", "bucketExists", "bucketReadFails"} :
       /\ lastOutcome' = r
       /\ IF bucketBeforeCreation(r) = "throw"
          THEN Throw(IF r = "bucketExists" THEN "Bucket already exists" ELSE "RPC error")
          ELSE Goto(bucketBeforeCreation(r))
  /\ UNCHANGED <<opFrame, address, fileName, fileKey, txHash, receipt,
                 pollI, probes, waits, sawOther, txCount>>
  /\ Quiet

\* verifyBucketCreation(bucketId): getPolkadotApi(), getMspInfo(), one read
verifyBucketCreation_getMspInfo ==
  /\ pc = "vb_mspInfo"
  /\ IF ~mspClientInstance
     THEN Throw("MSP client not connected") /\ Quiet
     ELSE /\ Dispatch
          /\ \E ok \in BOOLEAN : IF ok THEN Goto("vb_read") ELSE Throw("HTTP 500")
  /\ UNCHANGED <<opFrame, localsFrame, pollVars, txCount, did>>

\* What verifyBucketCreation does with the answer of its one read of
\* providers.buckets(bucketId): `if (bucket.isEmpty) throw`, else return.
VerifyReadStepRetries(r) ==
  CASE r = "isEmpty" -> "again"
    [] r = "bucket" -> "return"
    [] r = "rpcError" -> "throw"
VerifyReadStep(r) ==
  CASE r = "isEmpty" -> "throw"
    [] r = "bucket" -> "return"
    [] r = "rpcError" -> "throw"

VerifyError(r) ==
  IF r = "isEmpty" THEN "Bucket not found on chain after creation" ELSE "RPC error"

verifyBucketCreation_read ==
  /\ pc = "vb_read"
  /\ did' = did \cup {"verify"}
  /\ \E r \in {"isEmpty", "bucket", "rpcError"} :
       /\ lastOutcome' = r
       /\ LET nxt == VerifyReadStep(r) IN
            CASE nxt = "throw" -> Throw(VerifyError(r))
              [] nxt = "return" -> Return
              [] OTHER -> Goto("vb_read")
  /\ UNCHANGED <<opFrame, localsFrame, pollI, probes, waits, sawOther, txCount>>
  /\ Quiet
CreateStepAfterSkipsVerify(o) ==
  CASE o = "start" -> "creating"
    [] o = "createBucket" -> "waiting"
    [] o = "verifyBucketCreation" -> "verifying"
    [] o = "waitForBackendBucketReady" -> "done"
CreateStepAfter(o) ==
  CASE o = "start" -> "creating"
    [] o = "createBucket" -> "verifying"
    [] o = "verifyBucketCreation" -> "waiting"
    [] o = "waitForBackendBucketReady" -> "done"

handleCreateBucket_start ==
  /\ FormEnabled(createProgress)
  /\ \E n \in Names : fileName' = n
  /\ bucketId' = NoKey
  /\ BeginCall("handleCreateBucket", "createBucket", "cb_getters")
  /\ error' = NULL
  /\ createProgress' = CreateStepAfter("start")
  /\ callStep' = CreateStepAfter("start")
  /\ UNCHANGED <<clientVars, mspVars, delVars, extVars, uploadProgress, uploadResets, createResets>>
  /\ Quiet
handleCreateBucket_verifying ==
  /\ handler = "handleCreateBucket"
  /\ pc = "h_ret"
  /\ op = "createBucket"
  /\ createProgress' = CreateStepAfter(op)
  /\ callStep' = CreateStepAfter(op)
  /\ op' = "verifyBucketCreation"
  /\ IF polkadotApiInstance
     THEN pc' = "vb_mspInfo" /\ opResult' = "none"
     ELSE pc' = "h_catch" /\ opResult' = "Polkadot API not initialized"
  /\ lastOutcome' = "none"
  /\ UNCHANGED <<clientVars, mspVars, delVars, extVars, uploadProgress, error, uploadResets, createResets,
                 handler, localsFrame, pollI, probes, waits, sawOther, calls, txCount, did, succeeded>>
  /\ Quiet
handleCreateBucket_waiting ==
  /\ handler = "handleCreateBucket"
  /\ pc = "h_ret"
  /\ op = "verifyBucketCreation"
  /\ createProgress' = CreateStepAfter(op)
  /\ callStep' = CreateStepAfter(op)
  /\ StartPoll("waitForBackendBucketReady")
  /\ UNCHANGED <<clientVars, mspVars, delVars, extVars, uploadProgress, error, uploadResets, createResets,
                 handler, localsFrame, calls, txCount, did, succeeded>>
  /\ Quiet
handleCreateBucket_done ==
  /\ handler = "handleCreateBucket"
  /\ pc = "h_ret"
  /\ op = "waitForBackendBucketReady"
  /\ createProgress' = CreateStepAfter(op)
  /\ callStep' = CreateStepAfter(op)
  /\ pc' = "hc_loadBuckets"
  /\ op' = "none"
  /\ UNCHANGED <<clientVars, mspVars, delVars, extVars, uploadProgress, error, uploadResets, createResets,
                 handler, localsFrame, opResult, pollVars, calls, txCount, did, succeeded>>
  /\ Quiet

\* isAuthError(err): is the error the backend's "the session is no longer
\* valid" (HTTP 401)?
isAuthError(err) == err = "HTTP 401"

\* clearSession(): the session state held in memory is dropped
clearSession ==
  /\ sessionToken' = NULL
  /\ authenticatedUserProfile' = NULL
  /\ invalidated' = TRUE

\* handleAuthError(error) of AppContext: its effect and what it returns
handleAuthErrorKeepsState(err) ==
  IF isAuthError(err)
  THEN /\ clearSession
       /\ ctxError' = "Session expired. Please re-authenticate."
       /\ UNCHANGED <<ctxIsAuthenticated, ctxUserProfile, ctxIsWalletConnected, ctxIsMspConnected,
                       profile>>
  ELSE UNCHANGED <<sessionToken, authenticatedUserProfile, invalidated, ctxVars>>
handleAuthError(err) ==
  IF isAuthError(err)
  THEN /\ clearSession
       /\ ctxIsAuthenticated' = FALSE
       /\ ctxUserProfile' = NULL
       /\ ctxError' = "Session expired. Please re-authenticate."
       /\ UNCHANGED <<ctxIsWalletConnected, ctxIsMspConnected, profile>>
  ELSE UNCHANGED <<sessionToken, authenticatedUserProfile, invalidated, ctxVars>>

handleAuthErrorReturns(err) == isAuthError(err)

\* the catch of loadBuckets() of the Buckets page
loadBuckets_catch(err) ==
  /\ handleAuthError(err)
  /\ error' = (IF handleAuthErrorReturns(err) THEN error ELSE err)

\* loadBuckets() of the Buckets page when a handler awaits it:
\* `if (!isMspConnected) return` on the flag the page rendered with, then
\* setError(null), the listing (getMspClient() first), and the catch
loadBucketsAnswers == {"notConnected", "ok", "e500", "e401"}
loadBuckets(r) ==
  IF r = "notConnected"
  THEN UNCHANGED <<error, sessionToken, authenticatedUserProfile, ctxVars, invalidated>> /\ Quiet
  ELSE IF ~mspClientInstance
  THEN /\ error' = "MSP client not connected"
       /\ UNCHANGED <<sessionToken, authenticatedUserProfile, ctxVars, invalidated>>
       /\ Quiet
  ELSE IF r = "ok"
  THEN /\ error' = NULL
       /\ Dispatch
       /\ UNCHANGED <<sessionToken, authenticatedUserProfile, ctxVars, invalidated>>
  ELSE /\ handleAuthError(ProbeError(r))
       /\ error' = (IF handleAuthErrorReturns(ProbeError(r)) THEN NULL ELSE ProbeError(r))
       /\ Dispatch

\* loadBuckets() called by the page itself (mount effect, Refresh button)
loadBuckets_call ==
  /\ BeginCall("loadBuckets", "loadBuckets", "lb_list")
  /\ error' = NULL
  /\ callStep' = "none"
  /\ UNCHANGED <<clientVars, mspVars, delVars, extVars, uploadProgress, createProgress,
                 uploadResets, createResets, bucketId, fileName>>
  /\ Quiet

\* getBucketsFromMSP(): getMspClient(), then await listBuckets()
loadBuckets_list ==
  /\ handler = "loadBuckets"
  /\ pc = "lb_list"
  /\ IF ~mspClientInstance
     THEN Throw("MSP client not connected") /\ Quiet
     ELSE /\ Dispatch
          /\ \E r \in {"ok", "e500", "e401"} :
               IF r = "ok" THEN Return ELSE Throw(ProbeError(r))
  /\ did' = did \cup {"listBuckets"}
  /\ UNCHANGED <<opFrame, localsFrame, pollVars, txCount>>

\* setBuckets(data), or the catch: handleAuthError(err), else setError
loadBuckets_done ==
  /\ handler = "loadBuckets"
  /\ pc \in {"h_ret", "h_catch"}
  /\ IF pc = "h_ret"
     THEN UNCHANGED <<error, sessionToken, authenticatedUserProfile, ctxVars, invalidated>>
     ELSE loadBuckets_catch(opResult)
  /\ EndCall
  /\ Quiet
  /\ UNCHANGED <<clientVars, mspClientInstance, delVars, restorePc, txLocals, uploadProgress, createProgress,
                 uploadResets, createResets, callStep>>

handleCreateBucket_refresh ==
  /\ handler = "handleCreateBucket"
  /\ pc = "hc_loadBuckets"
  /\ \E r \in loadBucketsAnswers : loadBuckets(r)
  /\ createResets' = Min(createResets + 1, MaxPendingResets)
  /\ EndCall
  /\ UNCHANGED <<clientVars, mspClientInstance, delVars, restorePc, txLocals, uploadProgress, createProgress,
                 uploadResets, callStep>>

handleCreateBucket_catch ==
  /\ handler = "handleCreateBucket"
  /\ pc = "h_catch"
  /\ createProgress' = "error"
  /\ callStep' = "error"
  /\ error' = opResult
  /\ EndCall
  /\ UNCHANGED <<clientVars, mspVars, delVars, extVars, uploadProgress, uploadResets, createResets>>
  /\ Quiet
createResetFires ==
  /\ createResets > 0
  /\ createResets' = createResets - 1
  /\ createProgress' = "idle"
  /\ UNCHANGED <<clientVars, mspVars, delVars, extVars, uploadProgress, error, uploadResets,
                 taskVars, pollVars, ghostVars>>
  /\ Quiet

\* -------------------------------------------- deleteBucket and its page
handleDeleteBucket_start ==
  /\ \E b \in Buckets : bucketId' = b
  /\ fileName' = NULL
  /\ BeginCall("handleDeleteBucket", "deleteBucket", "db_getters")
  /\ error' = NULL
  /\ callStep' = "none"
  /\ UNCHANGED <<clientVars, mspVars, delVars, extVars, uploadProgress, createProgress,
                 uploadResets, createResets>>
  /\ Quiet
deleteBucket_getters ==
  /\ pc = "db_getters"
  /\ IF ~storageHubClientInstance THEN Throw("StorageHub client not initialized")
     ELSE Goto("gas")
  /\ UNCHANGED <<opFrame, localsFrame, pollVars, txCount, did>>
  /\ Quiet

\* after deleteBucket returned: await loadBuckets()
handleDeleteBucket_refresh ==
  /\ handler = "handleDeleteBucket"
  /\ pc = "h_ret"
  /\ \E r \in loadBucketsAnswers : loadBuckets(r)
  /\ did' = did \cup {"listBuckets"}
  /\ pc' = "hd_finally"
  /\ UNCHANGED <<clientVars, mspClientInstance, delVars, restorePc, txLocals, uploadProgress, createProgress,
                 uploadResets, createResets, handler, op, localsFrame, opResult, pollVars,
                 calls, txCount, callStep, succeeded>>

\* catch (err) { setError(...) } finally { setIsDeleting(null) }
handleDeleteBucket_catchRefetches ==
  /\ handler = "handleDeleteBucket"
  /\ pc = "h_catch"
  /\ \E r \in loadBucketsAnswers : loadBuckets(r)
  /\ did' = did \cup {"listBuckets"}
  /\ pc' = "hd_finally"
  /\ UNCHANGED <<clientVars, mspClientInstance, delVars, restorePc, txLocals, uploadProgress, createProgress,
                 uploadResets, createResets, handler, op, localsFrame, opResult, pollVars,
                 calls, txCount, callStep, succeeded>>
handleDeleteBucket_catch ==
  /\ handler = "handleDeleteBucket"
  /\ pc = "h_catch"
  /\ error' = opResult
  /\ EndCall
  /\ UNCHANGED <<clientVars, mspVars, delVars, extVars, uploadProgress, createProgress,
                 uploadResets, createResets, callStep>>
  /\ Quiet

\* if (selectedBucketId === bucketId) { clear the selection }, finally
handleDeleteBucket_finally ==
  /\ handler = "handleDeleteBucket"
  /\ pc = "hd_finally"
  /\ EndCall
  /\ UNCHANGED <<clientVars, mspVars, pageVars, delVars, extVars, callStep>>
  /\ Quiet

\* --------------------------------------- requestDeleteFile and its page
\* if (!selectedBucketId) return; the key is one of the selected bucket
handleDelete_start ==
  /\ mounted
  /\ selectedBucketId # NoKey
  /\ bucketId' = selectedBucketId
  /\ \E n \in Names : fileName' = n
  /\ BeginCall("handleDelete", "requestDeleteFile", "rd_getters")
  /\ error' = NULL
  /\ callStep' = "none"
  /\ UNCHANGED <<clientVars, mspVars, delVars, extVars, uploadProgress, createProgress,
                 uploadResets, createResets>>
  /\ Quiet
requestDeleteFile_getters ==
  /\ pc = "rd_getters"
  /\ fileKey' = computeFileKey(Addr, bucketId, fileName)
  /\ IF ~storageHubClientInstance THEN Throw("StorageHub client not initialized")
     ELSE IF ~mspClientInstance THEN Throw("MSP client not connected")
     ELSE Goto("rd_fileInfo")
  /\ UNCHANGED <<opFrame, address, bucketId, fileName, txHash, receipt, pollVars, txCount, did>>
  /\ Quiet

\* const fileInfo = await mspClient.files.getFileInfo(bucketId, fileKey)
\* the versions of a file's metadata the index can hold
FileInfos == {"info1", "info2"}

requestDeleteFile_getFileInfo ==
  /\ pc = "rd_fileInfo"
  /\ did' = did \cup {"fileInfoRead"}
  /\ Dispatch
  /\ \E r \in {"fileInfo", "e404", "e401", "e500"} :
       IF r = "fileInfo"
       THEN Goto("gas") /\ \E info \in FileInfos : fileInfo' = info
       ELSE Throw(ProbeError(r)) /\ UNCHANGED fileInfo
  /\ UNCHANGED <<txFrame, gasTxOpts, baseFeePerGas, peerIds, localsFrame, pollVars, txCount>>

\* The pending-deletion effect re-runs whenever setPendingDeletions stores
\* a new Set: the old interval is cleared, a new one is armed unless the
\* set is empty.
Armed(pending, selected) == pending # {} /\ selected # NoKey

\* setPendingDeletions((prev) => new Set(prev).add(fileKey)); await
\* loadFiles(); then the finally
handleDelete_track ==
  /\ handler = "handleDelete"
  /\ pc = "h_ret"
  /\ IF mounted
     THEN /\ pendingDeletions' = pendingDeletions \cup {fileKey}
          /\ pollInterval' = Armed(pendingDeletions', selectedBucketId)
          /\ rounds' = Cancel(rounds)
     ELSE UNCHANGED <<pendingDeletions, pollInterval, rounds>>
  /\ \E r \in loadFilesAnswers : loadFiles(r)
  /\ EndCall
  /\ UNCHANGED <<clientVars, mspVars, uploadProgress, createProgress, uploadResets, createResets,
                 selectedBucketId, mounted, callStep, ctxVars, restorePc, txLocals, invalidated>>

handleDelete_catchSilent ==
  /\ handler = "handleDelete"
  /\ pc = "h_catch"
  /\ EndCall
  /\ UNCHANGED <<clientVars, mspVars, pageVars, delVars, extVars, callStep>>
  /\ Quiet
handleDelete_catch ==
  /\ handler = "handleDelete"
  /\ pc = "h_catch"
  /\ error' = (IF mounted THEN opResult ELSE error)
  /\ EndCall
  /\ UNCHANGED <<clientVars, mspVars, delVars, extVars, uploadProgress, createProgress,
                 uploadResets, createResets, callStep>>
  /\ Quiet

\* ----------------------------------------- downloadFile and its handler
\* what mspClient.files.downloadFile(fileKey) answers: a response with
\* one of these statuses, or a rejection
DownloadAnswers == {"200", "404", "500", "rejects"}

\* `if (downloadResponse.status !== 200) throw`
DownloadOkBelow500(status) == status \in {"200", "404"}
DownloadOk(status) == status = "200"

DownloadError(answer) ==
  CASE answer = "404" -> "Download failed with status: 404"
    [] answer = "500" -> "Download failed with status: 500"
    [] answer = "rejects" -> "HTTP 500"
    [] OTHER -> "none"

\* setIsDownloading(fileKey); setError(null)
handleDownload_start ==
  /\ \E b \in Buckets, n \in Names :
       /\ bucketId' = b
       /\ fileName' = n
  /\ BeginCall("handleDownload", "downloadFile", "df_request")
  /\ error' = NULL
  /\ callStep' = "none"
  /\ UNCHANGED <<clientVars, mspVars, delVars, extVars, uploadProgress, createProgress,
                 uploadResets, createResets>>
  /\ Quiet

\* getMspClient(); await mspClient.files.downloadFile(fileKey); the status
\* check
downloadFile_request ==
  /\ pc = "df_request"
  /\ fileKey' = computeFileKey(Addr, bucketId, fileName)
  /\ IF ~mspClientInstance
     THEN Throw("MSP client not connected") /\ Quiet /\ UNCHANGED <<did, lastOutcome>>
     ELSE /\ Dispatch
          /\ did' = did \cup {"download"}
          /\ \E r \in DownloadAnswers :
               /\ lastOutcome' = r
               /\ IF r # "rejects" /\ DownloadOk(r) THEN Goto("df_blob") ELSE Throw(DownloadError(r))
  /\ UNCHANGED <<opFrame, address, bucketId, fileName, txHash, receipt,
                 pollI, probes, waits, sawOther, txCount>>

\* await new Response(downloadResponse.stream).blob(); return the Blob
downloadFile_blob ==
  /\ pc = "df_blob"
  /\ \E ok \in BOOLEAN : IF ok THEN Return ELSE Throw("stream error")
  /\ UNCHANGED <<opFrame, localsFrame, pollVars, txCount, did>>
  /\ Quiet

\* the browser download is triggered; finally { setIsDownloading(null) }
handleDownload_done ==
  /\ handler = "handleDownload"
  /\ pc = "h_ret"
  /\ EndCall
  /\ UNCHANGED <<clientVars, mspVars, pageVars, delVars, extVars, callStep>>
  /\ Quiet

\* catch (err) { setError(message) } finally { setIsDownloading(null) }
handleDownload_catch ==
  /\ handler = "handleDownload"
  /\ pc = "h_catch"
  /\ error' = opResult
  /\ EndCall
  /\ UNCHANGED <<clientVars, mspVars, delVars, extVars, uploadProgress, createProgress,
                 uploadResets, createResets, callStep>>
  /\ Quiet

\* ------------------------------ pending-deletion poll effect (Files.tsx)
\* The selected-file panel (selectedFile and its refresh at the end of a
\* round and of handleDelete) is outside the model.

\* the interval fires: a round begins over the pendingDeletions and the
\* selectedBucketId captured by the effect.  setInterval does not wait for
\* the round before: up to `limit` rounds run side by side.
deletionPoll_tick(limit) ==
  /\ pollInterval
  /\ \E i \in 1..limit :
       /\ ~rounds[i].active
       /\ \A j \in 1..(i - 1) : rounds[j].active
       /\ rounds' = [rounds EXCEPT ![i] = NewRound(pendingDeletions, selectedBucketId)]
  /\ UNCHANGED <<clientVars, mspVars, pageVars, taskVars, pollVars, ghostVars,
                 pendingDeletions, pollInterval, selectedBucketId, mounted, extVars>>
  /\ Quiet

\* Does the key stay tracked after this answer of getFileInfo?  Any thrown
\* error lands in the empty catch.
KeepsTrackingNever(outcome) == FALSE
KeepsTracking(outcome) == outcome = "deletionInProgress"

\* what a probe of a pending deletion found: the file is still being
\* deleted, the record is gone or has another status, or the call failed
\* for a reason that says nothing about the record
ProbeClass(outcome) ==
  CASE outcome = "deletionInProgress" -> "inProgress"
    [] outcome \in FileStatuses \ {"deletionInProgress"} -> "otherStatus"
    [] outcome \in {"e404", "eNotFoundRecord"} -> "notFound"
    [] OTHER -> "failed"

\* one turn of the for-loop: getFileInfo(selectedBucketId, fileKey) inside
\* try/catch; getFileInfo starts with getMspClient(), which throws when
\* there is no client
deletionPoll_probe ==
  \E i \in 1..MaxRounds :
    /\ rounds[i].active
    /\ \E k \in rounds[i].todo :
         /\ txPayload' = NoTx
         /\ IF ~mspClientInstance
            THEN /\ reqCreds' = NoRequest
                 /\ delProbe' = <<k, rounds[i].bucket, "failed">>
                 /\ rounds' = [rounds EXCEPT ![i].todo = @ \ {k}]
            ELSE /\ reqCreds' = sessionProvider
                 /\ \E o \in FileProbeOutcomes :
                      /\ delProbe' = <<k, rounds[i].bucket, ProbeClass(o)>>
                      /\ rounds' = [rounds EXCEPT
                                      ![i].todo = @ \ {k},
                                      ![i].stillPending = IF KeepsTracking(o) THEN @ \cup {k} ELSE @]
    /\ UNCHANGED <<clientVars, mspVars, pageVars, taskVars, pollVars, ghostVars,
                   pendingDeletions, pollInterval, selectedBucketId, mounted,
                   ctxVars, restorePc, txLocals, invalidated>>

\* setPendingDeletions(stillPending); await loadFiles().  The new Set
\* re-runs the effect: its cleanup clears the interval and a new one is
\* armed.  On an unmounted page the updates are dropped.
deletionPoll_roundEnd ==
  \E i \in 1..MaxRounds :
    /\ rounds[i].active
    /\ rounds[i].todo = {}
    /\ IF mounted
       THEN /\ pendingDeletions' = rounds[i].stillPending
            /\ pollInterval' = Armed(pendingDeletions', selectedBucketId)
            /\ rounds' = [Cancel(rounds) EXCEPT ![i] = NoRound]
       ELSE /\ rounds' = [rounds EXCEPT ![i] = NoRound]
            /\ UNCHANGED <<pendingDeletions, pollInterval>>
    /\ \E r \in loadFilesAnswers : loadFiles(r)
    /\ UNCHANGED <<clientVars, mspVars, uploadProgress, createProgress, uploadResets, createResets,
                   taskVars, pollVars, ghostVars, selectedBucketId, mounted,
                   ctxVars, restorePc, txLocals, invalidated>>

\* setSelectedBucketId(e.target.value); the effects that depend on the
\* selection re-run: loadFiles(), and the pending-deletion effect with the
\* new selectedBucketId
handleBucketChange(b) ==
  /\ mounted
  /\ b # selectedBucketId
  /\ selectedBucketId' = b
  /\ pollInterval' = Armed(pendingDeletions, b)
  /\ rounds' = Cancel(rounds)
  /\ \E r \in loadFilesAnswers : loadFiles(r)
  /\ UNCHANGED <<clientVars, mspVars, uploadProgress, createProgress, uploadResets, createResets,
                 taskVars, pollVars, ghostVars, pendingDeletions, mounted,
                 ctxVars, restorePc, txLocals, invalidated>>

\* the Files page unmounts: the cleanup of the effect clears the interval
unmount ==
  /\ mounted
  /\ mounted' = FALSE
  /\ pollInterval' = FALSE
  /\ rounds' = Cancel(rounds)
  /\ UNCHANGED <<clientVars, mspVars, pageVars, taskVars, pollVars, ghostVars,
                 pendingDeletions, selectedBucketId, extVars>>
  /\ Quiet

\* ------------------------------------------------------------------ Next
\* the service calls made around the pages, with one wallet account
ServiceStep ==
  \/ connectWallet(Addr)
  \/ disconnectWallet
  \/ initPolkadotApi
  \/ connectToMsp
  \/ disconnectMsp

\* the authentication uploadFile awaits
AuthStep ==
  \/ authenticateUser_SIWE
  \/ authenticateUser_getProfile

SubmitterStep ==
  \/ buildGasTxOpts
  \/ submitTransaction
  \/ waitForTransactionReceipt

PollStep ==
  \/ pollProbe
  \/ pollWait

UploadStep ==
  \/ handleUpload_issuing
  \/ uploadFile_getters
  \/ uploadFile_getMspInfo
  \/ uploadFile_verifyStorageRequest
  \/ uploadFile_authenticate
  \/ uploadFile_transfer
  \/ handleUpload_confirming
  \/ handleUpload_finalizing
  \/ handleUpload_done
  \/ handleUpload_refresh
  \/ handleUpload_catch

CreateStep ==
  \/ createBucket_getters
  \/ createBucket_getMspInfo
  \/ createBucket_derive
  \/ handleCreateBucket_verifying
  \/ verifyBucketCreation_getMspInfo
  \/ verifyBucketCreation_read
  \/ handleCreateBucket_waiting
  \/ handleCreateBucket_done
  \/ handleCreateBucket_refresh
  \/ handleCreateBucket_catch

DeleteBucketStep ==
  \/ deleteBucket_getters
  \/ handleDeleteBucket_refresh
  \/ handleDeleteBucket_catch
  \/ handleDeleteBucket_finally

DeleteFileStep ==
  \/ requestDeleteFile_getters
  \/ requestDeleteFile_getFileInfo
  \/ handleDelete_track
  \/ handleDelete_catch

DownloadStep ==
  \/ downloadFile_request
  \/ downloadFile_blob
  \/ handleDownload_done
  \/ handleDownload_catch

DeletionPollStep ==
  \/ deletionPoll_tick(1)
  \/ deletionPoll_probe
  \/ deletionPoll_roundEnd

\* what the user starts
UserStep ==
  \/ handleUpload_start
  \/ handleCreateBucket_start
  \/ handleDeleteBucket_start
  \/ handleDelete_start
  \/ handleDownload_start
  \/ \E b \in Buckets : handleBucketChange(b)

\* every step of a call in flight: each is the continuation of an await
\* or of a timer, which the event loop runs once the awaited answer is in
TaskStep ==
  \/ AuthStep
  \/ SubmitterStep
  \/ PollStep
  \/ UploadStep
  \/ CreateStep
  \/ DeleteBucketStep
  \/ DeleteFileStep
  \/ DownloadStep

Next ==
  \/ ServiceStep
  \/ AuthStep
  \/ SubmitterStep
  \/ PollStep
  \/ UploadStep
  \/ CreateStep
  \/ DeleteBucketStep
  \/ DeleteFileStep
  \/ DownloadStep
  \/ DeletionPollStep
  \/ UserStep
  \/ uploadResetFires
  \/ createResetFires

Spec == Init /\ [][Next]_vars

\* The event loop runs every continuation that is ready and fires every
\* armed timer; nothing obliges the user to start anything.
FairSpec ==
  /\ Init
  /\ [][Next]_vars
  /\ WF_vars(TaskStep)
  /\ WF_vars(DeletionPollStep)
  /\ WF_vars(uploadResetFires)
  /\ WF_vars(createResetFires)

\* ------------------------------------------------- the session in the UI
\* The Dashboard and the Buckets page: the wallet answers with either
\* account, a restoreWalletConnection can be under way, the user signs in
\* and out, lists the buckets and deletes one.
SessionServiceStep ==
  \/ \E a \in Addrs : connectWallet(a)
  \/ disconnectWallet
  \/ restoreWalletConnection_begin
  \/ restoreWalletConnection_accounts
  \/ restoreWalletConnection_switch
  \/ initPolkadotApi
  \/ connectToMsp
  \/ disconnectMsp
  \/ (handler = "none" /\ disconnect)

SessionAuthStep ==
  \/ authenticateUser_call
  \/ authenticateUser_start
  \/ authenticateUser_SIWE
  \/ authenticateUser_getProfile
  \/ authenticateUser_done

ListBucketsStep ==
  \/ loadBuckets_call
  \/ loadBuckets_list
  \/ loadBuckets_done

SessionNext ==
  \/ SessionServiceStep
  \/ SessionAuthStep
  \/ ListBucketsStep
  \/ handleDeleteBucket_start
  \/ DeleteBucketStep
  \/ SubmitterStep

SessionSpec == Init /\ [][SessionNext]_vars

\* The Files page with its selector and its pending deletions: the user
\* selects a bucket, deletes files, changes the selection and leaves the
\* page while rounds of the poll are in flight.
FilesNext ==
  \/ connectWallet(Addr)
  \/ connectToMsp
  \/ \E b \in AllBuckets : handleBucketChange(b)
  \/ unmount
  \/ handleDelete_start
  \/ DeleteFileStep
  \/ SubmitterStep
  \/ deletionPoll_tick(MaxRounds)
  \/ deletionPoll_probe
  \/ deletionPoll_roundEnd

FilesSpec == Init /\ [][FilesNext]_vars

\* The Dashboard: the provider mounts and restores the session, the user
\* connects the wallet and the provider, signs in, lists the buckets (an
\* expired session goes to handleAuthError) and disconnects.  The click
\* on Disconnect lands wherever a call in flight awaits an answer, never
\* between the return of an operation and the continuation of its caller.
ContextNext ==
  \/ restoreSession_begin
  \/ restoreSession_restoreWalletConnection
  \/ restoreSession_checkAuth
  \/ restoreSession_getMspInfo
  \/ connectWallet_call
  \/ connectWallet_service
  \/ connectWallet_done
  \/ connectMsp_call
  \/ connectMsp_connectToMsp
  \/ connectMsp_getMspInfo
  \/ connectMsp_done
  \/ (Mounted /\ ctxIsMspConnected /\ ~ctxIsAuthenticated /\ authenticateUser_call)
  \/ authenticateUser_start
  \/ authenticateUser_SIWE
  \/ authenticateUser_getProfile
  \/ authenticateUser_done
  \/ (Mounted /\ loadBuckets_call)
  \/ loadBuckets_list
  \/ loadBuckets_done
  \/ (Mounted /\ pc \notin {"h_ret", "h_catch"} /\ disconnect)

ContextSpec == Init /\ [][ContextNext]_vars

\* ================================================================ claims
Range(seq) == {seq[j] : j \in 1..Len(seq)}

PollEnded == pc \in {"h_ret", "h_catch"}
PollRunning == pc \in {"poll_probe", "poll_wait"}

\* the answers that satisfy each poll
Satisfied(p) ==
  CASE p = "waitForMSPConfirmOnChain" -> {"confirmed"}
    [] p = "waitForBackendBucketReady" -> {"bucket"}
    [] p = "waitForBackendFileReady" -> {"ready"}

\* the attempt ceilings as the documentation of the polls states them
StatedMaxAttempts(p) ==
  CASE p = "waitForMSPConfirmOnChain" -> 10
    [] p = "waitForBackendBucketReady" -> 10
    [] p = "waitForBackendFileReady" -> 60

LaterSteps == {"readBack", "authenticate", "transfer", "verify", "probe"}

\* C1: a ledger operation returns success only if the receipt of its
\* transaction reports 'success'; on any other receipt status it fails with
\* its receipt error and none of the later steps (ledger read-back,
\* authentication, byte transfer, verification, index probe) is executed.
C1_ReceiptGatesSuccess ==
  /\ (Range(succeeded) \cap LedgerOps # {}) => receipt = "success"
  /\ (receipt \notin {"none", "success"}) =>
       /\ pc = "h_catch"
       /\ opResult = ReceiptError(op)
       /\ Range(succeeded) \cap LedgerOps = {}
       /\ did \cap LaterSteps = {}

C1_Witness ==
  /\ op = "uploadFile"
  /\ receipt = "reverted"
  /\ pc = "h_catch"
  /\ txCount = 1

\* C2: one invocation of a ledger operation hands at most one transaction
\* to the ledger, whatever the outcome of the submission or of the receipt.
C2_AtMostOneSubmission == txCount <= 1

C2_Witness ==
  /\ op = "requestDeleteFile"
  /\ receipt = "reverted"
  /\ pc = "h_catch"
  /\ txCount = 1

\* C3: when every answer before the last was 'not yet visible' and the last
\* answer satisfies the poll, the poll has returned successfully, within
\* its attempt ceiling, after n+1 probes and n waits.
C3_SuccessAfterNPlusOneProbes ==
  (op \in Polls /\ ~sawOther /\ lastOutcome \in Satisfied(op)) =>
     /\ pc = "h_ret"
     /\ opResult = "ok"
     /\ probes <= StatedMaxAttempts(op)
     /\ waits = probes - 1
     /\ pollI = probes - 1

C3_Witness ==
  /\ op = "waitForBackendFileReady"
  /\ pc = "h_ret"
  /\ ~sawOther
  /\ probes = 60
  /\ waits = 59

\* C4: when every probe answered 'not yet visible', the poll never returns
\* success, never probes more than maxAttempts times (10, 10, 60), keeps
\* running below the ceiling and fails with its timeout error at it.
C4_TimeoutAfterMaxAttempts ==
  (op \in Polls /\ ~sawOther /\ lastOutcome \in NotYetVisible(op)) =>
     /\ pc # "h_ret"
     /\ probes <= StatedMaxAttempts(op)
     /\ (probes < StatedMaxAttempts(op)) => PollRunning
     /\ (probes = StatedMaxAttempts(op)) =>
          \/ pc = "poll_wait"
          \/ pc = "h_catch" /\ opResult = TimeoutError(op)

C4_Witness ==
  /\ op = "waitForBackendFileReady"
  /\ pc = "h_catch"
  /\ ~sawOther
  /\ lastOutcome \in NotYetVisible(op)
  /\ probes = 60
  /\ opResult = TimeoutError(op)

\* the answers that are definitive failures
DefinitivelyFailed(p) ==
  CASE p = "waitForMSPConfirmOnChain" -> {"isNone"}
    [] p = "waitForBackendBucketReady" -> {}
    [] p = "waitForBackendFileReady" -> {"revoked", "rejected", "expired"}

\* C5: a definitively-failed answer (status revoked, rejected or expired;
\* storage request absent) ends the poll at that attempt: the poll has
\* thrown, no wait followed the probe and no further probe is pending.
C5_DefinitiveFailureStopsPoll ==
  (op \in Polls /\ lastOutcome \in DefinitivelyFailed(op)) =>
     /\ pc = "h_catch"
     /\ opResult = ProbeThrown(op, lastOutcome)
     /\ opResult # "none"
     /\ waits = probes - 1
     /\ pollI = probes - 1

C5_Witness ==
  /\ op = "waitForBackendFileReady"
  /\ lastOutcome = "rejected"
  /\ pc = "h_catch"
  /\ probes = 3

IndexPolls == {"waitForBackendBucketReady", "waitForBackendFileReady"}
AbsentOrPending == {"e404", "eNotFoundRecord", "pending"}
OtherProbeErrors == {"e401", "e500"}

\* C6 as first stated: absence of the record and status pending keep the
\* index poll probing, and the poll fails only on a definitive rejection
\* status or once maxAttempts probes were made.
C6_FailsOnlyOnRejectionOrTimeout ==
  /\ (op \in IndexPolls /\ lastOutcome \in AbsentOrPending) =>
        \/ PollRunning
        \/ pc = "h_catch" /\ probes = maxAttempts(op) /\ opResult = TimeoutError(op)
  /\ (op \in IndexPolls /\ pc = "h_catch" /\ probes > 0) =>
        \/ lastOutcome \in DefinitivelyFailed(op)
        \/ probes = maxAttempts(op) /\ opResult = TimeoutError(op)

\* C6 amended: absence of the record and status pending keep the index
\* poll probing; the poll fails only on a definitive rejection status, on
\* a probe error that is not a not-found classification, or once
\* maxAttempts probes were made.
C6_AbsenceNeverFailure ==
  /\ (op \in IndexPolls /\ lastOutcome \in AbsentOrPending) =>
        \/ PollRunning
        \/ pc = "h_catch" /\ probes = maxAttempts(op) /\ opResult = TimeoutError(op)
  /\ (op \in IndexPolls /\ pc = "h_catch" /\ probes > 0) =>
        \/ lastOutcome \in DefinitivelyFailed(op)
        \/ lastOutcome \in OtherProbeErrors /\ opResult = ProbeError(lastOutcome)
        \/ probes = maxAttempts(op) /\ opResult = TimeoutError(op)

C6_Witness ==
  /\ op = "waitForBackendFileReady"
  /\ lastOutcome = "e404"
  /\ pc = "poll_probe"
  /\ probes = 2

\* C7: the failures of waitForBackendFileReady tell their cause: each of
\* the messages for revoked, rejected and expired, and the timeout
\* message, is raised for that cause and for no other.
C7_FailureReasonsDistinct ==
  (op = "waitForBackendFileReady" /\ pc = "h_catch" /\ probes > 0) =>
     /\ (opResult = "File upload was cancelled by user") <=> (lastOutcome = "revoked")
     /\ (opResult = "File upload was rejected by MSP") <=> (lastOutcome = "rejected")
     /\ (opResult = "Storage request expired") <=> (lastOutcome = "expired")
     /\ (opResult = "Timed out waiting for file to be ready") <=>
          (pollI = 60 /\ lastOutcome \notin {"revoked", "rejected", "expired"})

C7_Witness ==
  /\ op = "waitForBackendFileReady"
  /\ pc = "h_catch"
  /\ lastOutcome = "expired"
  /\ opResult = "Storage request expired"

\* C8: waitForMSPConfirmOnChain returns only on a record that shows the
\* provider's countersignature; an unconfirmed record keeps it polling
\* (until the ceiling); an absent record is a failure, never a success.
C8_ConfirmOnlyWhenCountersigned ==
  (op = "waitForMSPConfirmOnChain") =>
     /\ (pc = "h_ret") => lastOutcome = "confirmed"
     /\ (lastOutcome \in {"mspNone", "unconfirmed"}) =>
          \/ PollRunning
          \/ pc = "h_catch" /\ probes = 10 /\ opResult = TimeoutError(op)
     /\ (lastOutcome = "isNone") =>
          /\ pc = "h_catch"
          /\ opResult = "StorageRequest no longer exists on-chain"

C8_Witness ==
  /\ op = "waitForMSPConfirmOnChain"
  /\ lastOutcome = "isNone"
  /\ pc = "h_catch"
  /\ probes = 2

DeletionPollStopped == ~pollInterval /\ \A i \in 1..MaxRounds : ~rounds[i].active

\* C9: every poll terminates: a bounded poll that is running eventually
\* is over, and the pending-deletion poll, once armed, eventually stops.
C9_EveryPollTerminates ==
  /\ [](op \in Polls => <>(op \notin Polls))
  /\ [](pollInterval => <>DeletionPollStopped)

UploadOrder ==
  {<<"preparing", "issuing">>, <<"issuing", "confirming">>,
   <<"confirming", "finalizing">>, <<"finalizing", "done">>}
  \cup {<<s, "error">> : s \in {"preparing", "issuing", "confirming", "finalizing", "done"}}

\* C10: a handleUpload call writes the progress steps in the order
\* preparing, issuing, confirming, finalizing, done, or error after any of
\* them; it writes done only when uploadFile, waitForMSPConfirmOnChain and
\* waitForBackendFileReady have returned in that order; error is its last
\* write.
C10_UploadStepOrder ==
  /\ [][(handler = "none" /\ handler' = "handleUpload") => callStep' = "preparing"]_vars
  /\ [][(handler = "handleUpload" /\ callStep' # callStep) =>
          <<callStep, callStep'>> \in UploadOrder]_vars
  /\ [](handler = "handleUpload" =>
          /\ callStep \in {"preparing", "issuing", "confirming", "finalizing", "done"}
          /\ (callStep = "done") =>
               succeeded = <<"uploadFile", "waitForMSPConfirmOnChain", "waitForBackendFileReady">>)

C10_Witness ==
  /\ handler = "handleUpload"
  /\ callStep = "done"
  /\ pc = "hu_loadFiles"
  /\ uploadProgress = "done"

InUpload == handler = "handleUpload"
TransferHappens == "transfer" \notin did /\ "transfer" \in did'

\* C11 as first stated: the bytes are transferred in step finalizing, after
\* waitForMSPConfirmOnChain has returned and before the index poll starts.
C11_TransferInFinalizing ==
  [][(InUpload /\ TransferHappens) =>
       /\ callStep = "finalizing"
       /\ "waitForMSPConfirmOnChain" \in Range(succeeded)]_vars

\* C11 amended: the bytes are transferred by uploadFile in step issuing,
\* once the receipt reported success and the storage request was read back,
\* before either poll has started; both polls of an upload run only after
\* the transfer, and step finalizing transfers nothing.
C11_TransferInIssuing ==
  /\ [][(InUpload /\ TransferHappens) =>
          /\ callStep = "issuing"
          /\ op = "uploadFile"
          /\ receipt = "success"
          /\ "readBack" \in did
          /\ "probe" \notin did
          /\ succeeded = <<>>]_vars
  /\ [](InUpload /\ (op \in Polls \/ "uploadFile" \in Range(succeeded)) => "transfer" \in did)

C11_Witness ==
  /\ InUpload
  /\ callStep = "confirming"
  /\ op = "waitForMSPConfirmOnChain"
  /\ pc = "poll_probe"
  /\ probes = 0
  /\ "transfer" \in did

UploadPolls == {"waitForMSPConfirmOnChain", "waitForBackendFileReady"}

\* C12: in an upload the key uploadFile returns, which both polls then
\* probe, is the key derived from (connected identity, bucketId, file
\* name); with a success receipt and an index that answers not-yet and then
\* ready (pending, pending, ready) the index poll returns and the upload
\* ends in step done.
C12_DoneWithDerivedKey ==
  /\ [](InUpload /\ (op \in UploadPolls \/ callStep = "done") =>
          /\ address # NULL
          /\ fileKey = <<"file", address, bucketId, fileName>>
          /\ receipt = "success")
  /\ [](InUpload /\ op = "waitForBackendFileReady" /\ ~sawOther /\ lastOutcome = "ready" =>
          pc = "h_ret")
  /\ [][(InUpload /\ op = "waitForBackendFileReady" /\ pc = "h_ret" /\ pc' # pc) =>
          /\ callStep' = "done"
          /\ uploadProgress' = "done"
          /\ fileKey' = fileKey]_vars

C12_Witness ==
  /\ InUpload
  /\ callStep = "done"
  /\ uploadProgress = "done"
  /\ receipt = "success"
  /\ probes = 3
  /\ ~sawOther
  /\ lastOutcome = "ready"
  /\ fileKey = <<"file", Addr, bucketId, fileName>>

InCreate == handler = "handleCreateBucket"

CreateOrder ==
  {<<"creating", "verifying">>, <<"verifying", "waiting">>, <<"waiting", "done">>}
  \cup {<<s, "error">> : s \in {"creating", "verifying", "waiting", "done"}}

\* C13: a handleCreateBucket call writes the progress steps in the order
\* creating, verifying, waiting, done, or error after any of them; the
\* bucketId is derived from (owner identity, name) before the transaction
\* is submitted, and verification and the index wait use that same id.
C13_CreateStepOrder ==
  /\ [][(handler = "none" /\ handler' = "handleCreateBucket") => callStep' = "creating"]_vars
  /\ [][(InCreate /\ callStep' # callStep) => <<callStep, callStep'>> \in CreateOrder]_vars
  /\ [](InCreate =>
          /\ callStep \in {"creating", "verifying", "waiting", "done"}
          /\ (callStep = "verifying") => op = "verifyBucketCreation"
          /\ (callStep = "waiting") => op = "waitForBackendBucketReady"
          /\ (callStep = "done") =>
               succeeded = <<"createBucket", "verifyBucketCreation", "waitForBackendBucketReady">>
          /\ ("submit" \in did \/ callStep # "creating") =>
               /\ address # NULL
               /\ bucketId = <<"bucket", address, fileName>>)
  /\ [][(InCreate /\ bucketId # NoKey) => bucketId' \in {bucketId, NoKey}]_vars

C13_Witness ==
  /\ InCreate
  /\ callStep = "waiting"
  /\ op = "waitForBackendBucketReady"
  /\ pc = "poll_probe"
  /\ probes = 1
  /\ bucketId = <<"bucket", Addr, fileName>>
  /\ txCount = 1

\* C14: verifyBucketCreation reads the ledger record once and does not
\* poll: after the read it is over.  An empty record makes it throw its
\* verification error, it returns only for a record that is there, and a
\* creation whose verification failed ends in error with no index probe.
C14_VerifyReadsOnce ==
  /\ [](op = "verifyBucketCreation" =>
          /\ ("verify" \in did) <=> (pc \in {"h_ret", "h_catch"} /\ lastOutcome # "none")
          /\ (lastOutcome = "isEmpty") =>
               /\ pc = "h_catch"
               /\ opResult = "Bucket not found on chain after creation"
          /\ (pc = "h_ret") => lastOutcome = "bucket"
          /\ "probe" \notin did)
  /\ [][(InCreate /\ op = "verifyBucketCreation" /\ pc = "h_catch" /\ pc' # pc) =>
          /\ callStep' = "error"
          /\ createProgress' = "error"
          /\ handler' = "none"]_vars

C14_Witness ==
  /\ InCreate
  /\ op = "verifyBucketCreation"
  /\ lastOutcome = "isEmpty"
  /\ pc = "h_catch"
  /\ receipt = "success"
  /\ "probe" \notin did

InDeleteBucket == handler = "handleDeleteBucket"

\* C15: a deleteBucket whose receipt is not 'success' throws its receipt
\* error and the handler then makes no backend call (no listing, no
\* probe); on success the handler lists the buckets once, right after the
\* receipt, and never polls the index.
C15_DeleteBucketNoIndexWait ==
  InDeleteBucket =>
    /\ op = "deleteBucket"
    /\ did \cap {"probe", "verify", "transfer"} = {}
    /\ (receipt \notin {"none", "success"}) =>
         /\ pc = "h_catch"
         /\ opResult = "Bucket deletion failed"
         /\ "listBuckets" \notin did
    /\ ("listBuckets" \in did) <=> (pc = "hd_finally")
    /\ (pc = "hd_finally") =>
         /\ receipt = "success"
         /\ succeeded = <<"deleteBucket">>
         /\ txCount = 1

C15_Witness ==
  /\ InDeleteBucket
  /\ receipt = "reverted"
  /\ pc = "h_catch"
  /\ txCount = 1
  /\ did = {"gas", "submit", "receipt"}

\* C16: the credentials of a backend request are read from the session
\* state when the request is dispatched: once the session is invalidated
\* it supplies no token, and every request dispatched after that, also by
\* a poll loop that started before the invalidation, carries no token.
C16_CredentialsReadAtDispatch ==
  /\ [](invalidated => sessionProvider = NoCreds)
  /\ [][(reqCreds' # NoRequest) => reqCreds' = sessionProvider]_vars
  /\ [][(invalidated /\ reqCreds' # NoRequest) => reqCreds' = NoCreds]_vars

C16_Witness ==
  /\ op = "waitForBackendFileReady"
  /\ pc = "poll_wait"
  /\ probes = 2
  /\ invalidated
  /\ ~mspClientInstance
  /\ reqCreds = NoCreds

SessionExpired == "Session expired. Please re-authenticate."

\* C17: handleAuthError(err), as the catch of loadBuckets calls it: for
\* an authentication error the session is invalidated, isAuthenticated
\* becomes false and userProfile null, the message 'Session expired.
\* Please re-authenticate.' is set, it returns true (the caller sets no
\* error of its own) and nothing is retried or re-authenticated; for any
\* other error it returns false (the caller sets its error) and neither
\* the session nor the context state changes.
C17_AuthErrorInvalidatesSession ==
  [][(handler = "loadBuckets" /\ pc = "h_catch" /\ pc' # pc) =>
       IF isAuthError(opResult)
       THEN /\ sessionToken' = NULL
            /\ authenticatedUserProfile' = NULL
            /\ invalidated'
            /\ ~ctxIsAuthenticated'
            /\ ctxUserProfile' = NULL
            /\ ctxError' = SessionExpired
            /\ error' = error
            /\ handler' = "none"
            /\ reqCreds' = NoRequest
       ELSE /\ UNCHANGED <<sessionToken, authenticatedUserProfile, invalidated, ctxVars>>
            /\ error' = opResult
            /\ handler' = "none"]_vars

C17_Witness ==
  /\ handler = "none"
  /\ calls = 2
  /\ ctxError = SessionExpired
  /\ ~ctxIsAuthenticated
  /\ ctxUserProfile = NULL
  /\ sessionToken = NULL
  /\ invalidated
  /\ mspClientInstance
  /\ error = NULL

\* C18: a handler that ends on a backend error which is an authentication
\* error has passed it to the auth-error classification: the session is
\* invalidated and the session-expired message is shown, and the error is
\* not shown as a generic failure of the page.
C18_AuthErrorAlwaysClassified ==
  [][(handler # "none" /\ pc = "h_catch" /\ isAuthError(opResult) /\ handler' = "none") =>
       /\ invalidated'
       /\ sessionToken' = NULL
       /\ ctxError' = SessionExpired
       /\ error' # opResult]_vars

\* C19: whenever the session provider supplies credentials, the identity
\* in them is the one the token was issued for.
C19_TokenMatchesIdentity ==
  (sessionProvider # NoCreds) => sessionProvider = <<connectedAddress, connectedAddress>>

\* C20: no ledger transaction is submitted while the connected identity
\* is null: whenever the StorageHub client is available a connected
\* address is held, and a ledger-write operation in flight without a
\* connected address has failed before any network call.
C20_NoWriteWithoutIdentity ==
  /\ storageHubClientInstance => connectedAddress # NULL
  /\ (op \in LedgerOps /\ connectedAddress = NULL) =>
       /\ did = {}
       /\ txCount = 0
       /\ pc \in {"db_getters", "h_catch"}

\* C21: every ledger submission carries fee options computed in the same
\* invocation, by the step right before the submission, from the base fee
\* of the latest block read then: gas 1,500,000, maxFeePerGas = 2 x base
\* fee + 1,500,000,000, maxPriorityFeePerGas 1,500,000,000.  Fee options
\* are held only between that step and the submission, so none is reused
\* by a later invocation, and a latest block without base fee fails the
\* operation with no transaction submitted.
C21_FeeOptionsFresh ==
  /\ [][(txPayload' # NoTx) =>
          /\ pc = "submit"
          /\ "gas" \in did
          /\ baseFeePerGas >= 0
          /\ txPayload'[3] = <<1500000, 2 * baseFeePerGas + 1500000000, 1500000000>>]_vars
  /\ [][(pc' = "submit" /\ pc # "submit") =>
          /\ pc = "gas"
          /\ gasTxOpts = NoOpts
          /\ gasTxOpts' = <<1500000, 2 * baseFeePerGas' + 1500000000, 1500000000>>]_vars
  /\ []((gasTxOpts # NoOpts \/ baseFeePerGas # NoFee) => (pc = "submit" /\ txCount = 0))
  /\ [](opResult = "RPC did not return baseFeePerGas for the latest block" =>
          /\ pc = "h_catch"
          /\ txCount = 0
          /\ "submit" \notin did)

C21_Witness ==
  /\ op = "createBucket"
  /\ pc = "receipt"
  /\ txCount = 1
  /\ txPayload = <<"createBucket", NULL, <<1500000, 2100000000, 1500000000>>>>

\* C22: requestDeleteFile submits its transaction only after it has read
\* the file's metadata from the index, and with exactly the metadata that
\* read returned; when the read fails the operation fails with the read's
\* error and no transaction is submitted.
C22_DeleteUsesReadMetadata ==
  /\ [][(op = "requestDeleteFile" /\ txPayload' # NoTx) =>
          /\ "fileInfoRead" \in did
          /\ fileInfo \in FileInfos
          /\ txPayload'[2] = fileInfo]_vars
  /\ [][(op = "requestDeleteFile" /\ pc = "rd_fileInfo" /\ pc' = "h_catch") =>
          /\ fileInfo' = NULL
          /\ opResult' \in {"HTTP 404", "HTTP 401", "HTTP 500"}]_vars
  /\ [](op = "requestDeleteFile" /\ fileInfo = NULL /\ "submit" \notin did => txCount = 0)
  /\ [](op = "requestDeleteFile" /\ pc \in {"gas", "submit"} => fileInfo \in FileInfos)

C22_Witness ==
  /\ op = "requestDeleteFile"
  /\ pc = "receipt"
  /\ txCount = 1
  /\ txPayload[2] = "info2"

\* a round of the pending-deletion poll ends / makes one probe in this step
RoundEnds(i) == rounds[i].active /\ ~rounds'[i].active
RoundProbes(i) == rounds[i].active /\ rounds'[i].active /\ rounds'[i].todo # rounds[i].todo

\* C23: a file key enters the pending set only when handleDelete has seen
\* requestDeleteFile return (or when a round that kept it stores its
\* set); it leaves the set only at the end of a round that probed it and
\* did not keep it; and a probe that failed for a reason other than
\* record-not-found keeps the key: the round puts it in stillPending.
C23_TrackedUntilProbeEnds ==
  /\ [][\A k \in pendingDeletions' \ pendingDeletions :
          \/ /\ handler = "handleDelete"
             /\ pc = "h_ret"
             /\ k = fileKey
             /\ "requestDeleteFile" \in Range(succeeded)
          \/ \E i \in 1..MaxRounds : RoundEnds(i) /\ k \in rounds[i].stillPending]_vars
  /\ [][\A k \in pendingDeletions \ pendingDeletions' :
          \E i \in 1..MaxRounds :
             RoundEnds(i) /\ k \in rounds[i].keys \ rounds[i].stillPending]_vars
  /\ [][(delProbe' # NoProbe /\ delProbe'[3] = "failed") =>
          \A i \in 1..MaxRounds :
             RoundProbes(i) => delProbe'[1] \in rounds'[i].stillPending]_vars

\* C24: when a probe of a pending key finds no record, that probe is the
\* last one of the key: the round that made it does not keep the key, no
\* round in flight is left to probe it or holds it as still pending, and
\* the end of the round drops it from the pending set.
C24_AbsentKeyDroppedAfterOneProbe ==
  /\ [](delProbe # NoProbe /\ delProbe[3] = "notFound" =>
          \A i \in 1..MaxRounds :
             /\ delProbe[1] \notin rounds[i].todo
             /\ delProbe[1] \notin rounds[i].stillPending)
  /\ [][\A i \in 1..MaxRounds :
          (RoundEnds(i) /\ mounted) =>
             pendingDeletions' \cap (rounds[i].keys \ rounds[i].stillPending) = {}]_vars

\* C25: the end of a round does not drop a key that was added to the
\* pending set while the round was in flight (a key the round did not
\* capture), and a key leaves the pending set only at the end of a round
\* that probed it.
C25_KeysPolledIndependently ==
  /\ [][\A i \in 1..MaxRounds :
          RoundEnds(i) =>
             \A k \in pendingDeletions \ rounds[i].keys : k \in pendingDeletions']_vars
  /\ [][\A k \in pendingDeletions :
          k \notin pendingDeletions' =>
             \E i \in 1..MaxRounds : RoundEnds(i) /\ k \in rounds[i].keys]_vars

\* the cleanup of the effect reaches round i in this step
RoundCancelled(i) == rounds[i].active /\ ~rounds[i].cancelled /\ rounds'[i].cancelled

\* C26: cancelling the pending-deletion poll (the page unmounts, or the
\* effect re-runs) starts no further round on an unmounted page, leaves
\* the rounds in flight running with the probes they have left, and
\* conjures no result: the cancellation itself drops no key, and a round
\* that was cancelled applies no state update when it ends.
C26_CancelConjuresNothing ==
  /\ [][\A i \in 1..MaxRounds :
          ~mounted => ~(~rounds[i].active /\ rounds'[i].active)]_vars
  /\ [][\A i \in 1..MaxRounds :
          RoundCancelled(i) =>
             /\ rounds'[i].active
             /\ rounds'[i].todo = rounds[i].todo
             /\ (\A j \in 1..MaxRounds : ~RoundEnds(j)) => pendingDeletions \subseteq pendingDeletions']_vars
  /\ [][\A i \in 1..MaxRounds :
          (RoundEnds(i) /\ rounds[i].cancelled) =>
             /\ pendingDeletions' = pendingDeletions
             /\ pollInterval' = pollInterval
             /\ error' = error]_vars

\* C27: one invocation of downloadFile sends exactly one download
\* request; any response status other than 200 (and a rejected request)
\* makes it throw, nothing is requested again, and handleDownload shows
\* the error and ends.
C27_DownloadOnceNoRetry ==
  /\ [][(op = "downloadFile" /\ pc' # pc /\ reqCreds' # NoRequest) =>
          /\ "download" \notin did
          /\ "download" \in did']_vars
  /\ [](op = "downloadFile" /\ lastOutcome \notin {"none", "200"} =>
          /\ pc = "h_catch"
          /\ opResult \in {"Download failed with status: 404",
                           "Download failed with status: 500", "HTTP 500"})
  /\ [](op = "downloadFile" /\ pc \in {"df_blob", "h_ret"} => lastOutcome = "200")
  /\ [][(handler = "handleDownload" /\ pc = "h_catch" /\ pc' # pc) =>
          /\ error' = opResult
          /\ handler' = "none"]_vars

C27_Witness ==
  /\ handler = "handleDownload"
  /\ op = "downloadFile"
  /\ lastOutcome = "404"
  /\ pc = "h_catch"
  /\ did = {"download"}
  /\ opResult = "Download failed with status: 404"

Orchestrated ==
  {"handleCreateBucket", "handleDeleteBucket", "handleUpload", "handleDelete", "handleDownload"}

\* C28: a failed orchestrated call (bucket creation, bucket deletion,
\* upload, file deletion, download) shows exactly one error message: the
\* catch that ends the call sets it, and no step of the call set one
\* before; a call whose progress has reached done does not set its
\* progress to error afterwards.
C28_OneTerminalError ==
  /\ [][(handler \in Orchestrated /\ pc = "h_catch" /\ pc' # pc) =>
          /\ handler' = "none"
          /\ error' = opResult
          /\ opResult \notin {"none", "ok", NULL}]_vars
  /\ [][(handler \in Orchestrated /\ handler' = handler /\ pc' # pc /\ error' # error) =>
          /\ pc' = "hd_finally"
          /\ succeeded = <<"deleteBucket">>]_vars
  /\ [][(pc = "hd_finally" /\ pc' # pc) => (handler' = "none" /\ error' = error)]_vars
  /\ [][(handler = "handleUpload" /\ callStep = "done") =>
          (callStep' # "error" /\ uploadProgress' # "error")]_vars
  /\ [][(handler = "handleCreateBucket" /\ callStep = "done") =>
          (callStep' # "error" /\ createProgress' # "error")]_vars

C28_Witness ==
  /\ handler = "none"
  /\ calls = 2
  /\ uploadProgress = "done"
  /\ error = "Download failed with status: 500"

\* C29: inside waitForBackendBucketReady and waitForBackendFileReady a
\* probe error that is not a not-found classification ends the poll at
\* that attempt (no wait follows, no further probe) and is thrown as it
\* is: the handler's catch receives that very error.
C29_ProbeErrorPropagates ==
  /\ [](op \in BackendPolls /\ lastOutcome \in {"e401", "e500"} =>
          /\ pc = "h_catch"
          /\ opResult = (IF lastOutcome = "e401" THEN "HTTP 401" ELSE "HTTP 500")
          /\ waits = probes - 1
          /\ pollI = probes - 1)
  /\ [][(op \in BackendPolls /\ lastOutcome \in {"e401", "e500"} /\ pc' # pc) =>
          /\ handler' = "none"
          /\ error' = (IF lastOutcome = "e401" THEN "HTTP 401" ELSE "HTTP 500")]_vars

C29_Witness ==
  /\ op = "waitForBackendBucketReady"
  /\ lastOutcome = "e401"
  /\ pc = "h_catch"
  /\ probes = 2
  /\ waits = 1
  /\ opResult = "HTTP 401"

\* C30: a pending deletion is probed against the bucket in which it was
\* requested (the bucket its file key was derived from), whatever bucket
\* is selected since; and a key is dropped from the pending set only by a
\* round that probed it against that bucket.
C30_ProbedInOwnBucket ==
  /\ [](delProbe # NoProbe => delProbe[2] = delProbe[1][3])
  /\ [][\A i \in 1..MaxRounds :
          RoundEnds(i) =>
             \A k \in rounds[i].keys \ rounds[i].stillPending :
                (k \in pendingDeletions /\ k \notin pendingDeletions') => rounds[i].bucket = k[3]]_vars

\* C38: when the ledger already holds a record under the derived
\* bucketId, createBucket has failed with 'Bucket already exists' at the
\* look-up: no fee options were computed and no transaction submitted;
\* and createBucket reaches the fee computation only after a look-up that
\* found no record.
C38_NoCreateWhenBucketExists ==
  /\ [](op = "createBucket" /\ lastOutcome = "bucketExists" =>
          /\ pc = "h_catch"
          /\ opResult = "Bucket already exists"
          /\ txCount = 0
          /\ did \cap {"gas", "submit", "receipt"} = {}
          /\ gasTxOpts = NoOpts)
  /\ [](op = "createBucket" /\ pc \in {"gas", "submit", "receipt"} =>
          "existsCheck" \in did /\ lastOutcome = "noBucketYet")
  /\ [][(op = "createBucket" /\ lastOutcome = "bucketExists") => txPayload' = NoTx]_vars

C38_Witness ==
  /\ op = "createBucket"
  /\ lastOutcome = "bucketExists"
  /\ pc = "h_catch"
  /\ bucketId = deriveBucketId(Addr, "f1")

\* the peer ids: the segments that follow '/p2p/' in a multiaddress
P2pSegments == {"Qm"}

\* C35: the storage-request transaction of uploadFile carries peer ids
\* that are '/p2p/<peerId>' segments of the provider's multiaddresses, at
\* least one; when the multiaddress list is missing or empty, or no
\* multiaddress has a '/p2p/' segment with a peer id, uploadFile has
\* failed and has submitted no transaction.
C35_PeerIdsFromP2pSegment ==
  /\ [][(op = "uploadFile" /\ txPayload' # NoTx) =>
          /\ txPayload'[2] # <<>>
          /\ Range(txPayload'[2]) \subseteq P2pSegments]_vars
  /\ [](op = "uploadFile" /\ lastOutcome \in {"noMultiaddresses", "noP2p", "emptyPeer"} =>
          /\ pc = "h_catch"
          /\ txCount = 0
          /\ did \cap {"gas", "submit"} = {})

\* C36: in uploadFile the byte transfer to the storage provider is
\* dispatched only after the receipt reported success and the ledger read
\* by the derived file key found the storage-request record; when that
\* record is missing the upload fails with 'Storage request not found on
\* chain' and no bytes are transferred.
C36_TransferAfterReadBack ==
  /\ [][(op = "uploadFile" /\ "transfer" \in did' /\ "transfer" \notin did) =>
          /\ receipt = "success"
          /\ "readBack" \in did
          /\ lastOutcome = "requestIsSome"
          /\ fileKey = computeFileKey(address, bucketId, fileName)]_vars
  /\ [](op = "uploadFile" /\ lastOutcome = "requestIsNone" =>
          /\ pc = "h_catch"
          /\ opResult = "Storage request not found on chain"
          /\ "transfer" \notin did)
C36_Witness ==
  /\ op = "uploadFile"
  /\ "transfer" \in did
  /\ receipt = "success"
  /\ lastOutcome = "requestIsSome"
C36_WitnessMissing ==
  /\ op = "uploadFile"
  /\ lastOutcome = "requestIsNone"
  /\ pc = "h_catch"
  /\ txCount = 1


\* C37: uploadFile never dispatches the byte transfer while no session is
\* held: when isAuthenticated() is false after the storage request is on
\* the ledger it runs authenticateUser first, and when that authentication
\* fails no bytes are transferred and the upload fails, the storage request
\* already issued staying on the ledger.
TransferDispatched == "transfer" \notin did /\ "transfer" \in did'
AuthFailures ==
  {"SIWE failed", "getProfile failed", "MSP client not connected",
   "Wallet not connected. Please connect your wallet first."}
C37_TransferOnlyWithSession ==
  /\ [][(op = "uploadFile" /\ TransferDispatched) => isAuthenticated]_vars
  /\ [][(op = "uploadFile" /\ pc = "uf_auth" /\ ~isAuthenticated /\ pc' # pc) =>
          pc' \in {"au_siwe", "h_catch"}]_vars
  /\ [](op = "uploadFile" /\ "readBack" \in did /\ lastOutcome = "requestIsSome"
          /\ pc = "h_catch" /\ opResult \in AuthFailures =>
            /\ "transfer" \notin did
            /\ txCount = 1
            /\ receipt = "success")


\* C32: authenticateUser is all-or-nothing: when it fails at the profile
\* fetch no session token is retained, so that whenever no authentication
\* is under way isAuthenticated() is true exactly when the session provider
\* would supply a token for a connected address.
AuthInFlight == pc \in {"au_start", "au_siwe", "au_profile"}
C32_AuthAllOrNothing ==
  /\ [](pc = "h_catch" /\ opResult = "getProfile failed" => sessionToken = NULL)
  /\ [](~AuthInFlight => (isAuthenticated <=> sessionProvider # NoCreds))


\* C33: a disconnect that happens while authenticateUser is in flight is
\* not undone by it: when that authenticateUser has completed no session
\* token is held, isAuthenticated() is false and the application state
\* shows isAuthenticated = false; and a disconnect leaves the disconnected
\* state whatever the state before it, so that a second one changes nothing.
\* (authenticateUser starts with isMspConnected shown and only disconnect
\* takes it back, so a call in flight without it has seen a disconnect.)
Disconnected ==
  /\ ~walletClientInstance /\ ~storageHubClientInstance /\ connectedAddress = NULL
  /\ ~mspClientInstance /\ sessionToken = NULL /\ authenticatedUserProfile = NULL
  /\ ~ctxIsWalletConnected /\ ~ctxIsMspConnected /\ ~ctxIsAuthenticated
  /\ ctxUserProfile = NULL
C33_DisconnectNotUndone ==
  /\ [][(handler = "authenticateUser" /\ ~ctxIsMspConnected /\ handler' = "none") =>
          /\ sessionToken' = NULL
          /\ ~isAuthenticated'
          /\ ~ctxIsAuthenticated']_vars
  /\ [][(ctxIsWalletConnected /\ ~ctxIsWalletConnected') => Disconnected']_vars

\* C34: in every state of the application isAuthenticated implies
\* isMspConnected and isMspConnected implies isWalletConnected.
C34_FlagsNested ==
  /\ ctxIsAuthenticated => ctxIsMspConnected
  /\ ctxIsMspConnected => ctxIsWalletConnected


\* C31: the progress step of the upload form, and of the bucket-creation
\* form, is idle only when no call of that form is in flight: the reset to
\* idle scheduled after a completed call never resets the step of a later
\* call that has started (an idle step would enable the form for another
\* call beside the one in flight).
C31_IdleOnlyWhenNoCall ==
  /\ handler = "handleUpload" => uploadProgress # "idle"
  /\ handler = "handleCreateBucket" => createProgress # "idle"

====
